---- MODULE Spec2Model ----
(***************************************************************************)
(* A model of the query engine of @themost/data: the execution pipeline of *)
(* a DataQueryable terminal operation (migration, before.execute hooks,    *)
(* dispatch to the adapter, association expansion, after.execute hooks),   *)
(* the nested attribute resolver with its join list, and the paging        *)
(* operation list().                                                       *)
(***************************************************************************)
EXTENDS Integers, Sequences, FiniteSets, TLC

(***************************************************************************)
(* Bounds of the model.                                                    *)
(***************************************************************************)
\* the largest number of listeners registered for one event of the Model
MaxHooks == 2
\* the largest number of (distinct) entries of a Queryable's expand list
MaxExpand == 2
\* the number of terminal operations run one after the other
MaxRuns == 2

VARIABLES
    \* ---- the Model and the configuration cache (shared by all operations)
    model,          \* [version, sealed, hasBase, nBefore, nAfter]
    cache,          \* conf.cache[name].version, for the Model "M" and its base "B"
    \* ---- the terminal operation in flight
    pc,             \* the position of the operation
    runs,           \* the number of terminal operations started so far
    qHasExpand,     \* whether self.$expand is set
    qExpandLen,     \* the length of self.$expand.distinct()
    qView,          \* whether self.$view is set
    expandIdx,      \* the number of expand entries that have completed
    curKind,        \* the expand entry being processed
    beforeDone,     \* the number of before.execute listeners that have completed
    afterDone,      \* the number of after.execute listeners that have completed
    eResult,        \* e.result of the event object
    result,         \* the local variable result of finalExecuteInternal_
    hookSetResult,  \* whether a before.execute listener has set e.result
    execCalls,      \* the calls of context.db.execute made by the operation
    execReturned,   \* whether the adapter has called back
    fetchCalls,     \* the association fetches started by the operation
    trCalls,        \* the calls of db.migrate made for the Model "M", all operations
    migrateOk,      \* the Models whose transaction of migrate has succeeded
    failed,         \* the first error reported by a step of the operation
    callbacks,      \* the number of times the caller's callback was invoked
    deliveredErr,   \* the error passed to the caller's callback
    deliveredResult, \* the result passed to the caller's callback
    \* ---- a Queryable whose attributes are resolved (the attribute resolver)
    rModel,         \* the name of the Queryable's Model
    rExpand,        \* query.$expand: its shape and its joins
    rLast,          \* the last builder call: method, path, status, field reference
    rCalls,         \* the number of builder calls made
    rClone,         \* after clone(): query.$expand of the original Queryable
    \* ---- a Queryable that is paged and listed
    rows,           \* the number of rows that match the filter of the Queryable
    query,          \* $skip and $take of the query of the Queryable
    q1,             \* $skip and $take of the query of its clone
    lpc,            \* the position of list()
    given,          \* $skip and $take when list() was called
    res,            \* the result set, or the error, given to the caller
    \* ---- a Queryable whose expansion flags are set by builder calls
    fq,             \* $expand, $levels and $flatten of the Queryable
    fLast,          \* the last builder call, and the Queryable before it
    fRun,           \* the association expansion of the terminal operation
    \* ---- the nested Queryables of a recursive association expansion
    nSchema,        \* the Models that have an expandable association
    nModel,         \* the Model of the Queryable that runs
    nLevels,        \* $levels of the Queryable that runs
    nTop,           \* $levels of the top-level Queryable
    nCaller,        \* getLevels() of the Queryable that made the one that runs
    nDepth,         \* the number of Queryables above the one that runs
    npc,            \* whether the expansion has ended
    \* ---- a Queryable whose projection is set by select()
    sModel,         \* the Model: whether "orders" is expandable, whether it has
                    \* "groups", and its fields of type Person
    sLevels,        \* $levels of the Queryable
    sq,             \* query.$select and $expand of the Queryable
    sCalls,         \* the kinds of the select() and join() calls made, in order
    sLast,          \* the argument of the last call
    sJoins,         \* the joins appended to the query
    sErr,           \* the error a call has thrown, or "none"
    sRan,           \* whether a terminal operation has run
    \* ---- a Queryable whose filter is built by where() and search()
    bModel,         \* the Model of the Queryable
    bq,             \* query.$prepared and query.$where of the Queryable
    bLast,          \* the last builder call
    bCalls,         \* the number of builder calls made
    bArr,           \* the rows given to toArrayCallback by the last call and what it called back with
    bAgg,           \* the aggregate attribute resolved by the last call and its alias
    bOrder,         \* the order expression of the query: attributes and directions
    oModel,         \* overlapping operations: the version and the sealed flag of their Model
    oCache,         \* the version of the Model in the migration cache
    oPc,            \* the position of each operation, or how its migrate ended
    oMigrates,      \* the number of calls of the adapter's migrate for the Model
    jOnce,          \* the listeners registered with once and not yet removed, by event
    jRun,           \* the object being saved or removed and what has happened to it
    jOps,           \* the number of objects saved or removed so far
    \* ---- save() and remove() of a Model
    tRun,           \* the operation in flight: its items, its position, its outcome
    tStored,        \* the tags stored for the object of each item
    tBefore,        \* the tags stored when the transaction began
    \* ---- a Model: its fields, its cached attributes, and cast and convert
    mFields,        \* DataModel.fields
    mCache,         \* the attributes that the getter has cached, if any
    mLast           \* the last operation on the Model and what it returned

pipeVars == <<model, cache, pc, runs, qHasExpand, qExpandLen, qView, expandIdx, curKind,
              beforeDone, afterDone, eResult, result, hookSetResult, execCalls,
              execReturned, fetchCalls, trCalls, migrateOk, failed, callbacks,
              deliveredErr, deliveredResult>>

resVars == <<rModel, rExpand, rLast, rCalls, rClone>>

listVars == <<rows, query, q1, lpc, given, res>>

flagVars == <<fq, fLast, fRun>>

nestVars == <<nSchema, nModel, nLevels, nTop, nCaller, nDepth, npc>>

selVars == <<sModel, sLevels, sq, sCalls, sLast, sJoins, sErr, sRan>>

bldVars == <<bModel, bq, bLast, bCalls, bArr, bAgg, bOrder>>

txVars == <<tRun, tStored, tBefore>>

mdlVars == <<mFields, mCache, mLast>>

ovlVars == <<oModel, oCache, oPc, oMigrates>>

objVars == <<jOnce, jRun, jOps>>

nonPipeVars == <<resVars, listVars, flagVars, nestVars, selVars, bldVars, txVars, mdlVars, ovlVars, objVars>>

nonResVars ==
    <<pipeVars, listVars, flagVars, nestVars, selVars, bldVars, txVars, mdlVars, ovlVars, objVars>>

nonListVars ==
    <<pipeVars, resVars, flagVars, nestVars, selVars, bldVars, txVars, mdlVars, ovlVars, objVars>>

nonFlagVars ==
    <<pipeVars, resVars, listVars, nestVars, selVars, bldVars, txVars, mdlVars, ovlVars, objVars>>

nonNestVars ==
    <<pipeVars, resVars, listVars, flagVars, selVars, bldVars, txVars, mdlVars, ovlVars, objVars>>

nonSelVars ==
    <<pipeVars, resVars, listVars, flagVars, nestVars, bldVars, txVars, mdlVars, ovlVars, objVars>>

nonBldVars ==
    <<pipeVars, resVars, listVars, flagVars, nestVars, selVars, txVars, mdlVars, ovlVars, objVars>>

nonTxVars ==
    <<pipeVars, resVars, listVars, flagVars, nestVars, selVars, bldVars, mdlVars, ovlVars, objVars>>

nonMdlVars ==
    <<pipeVars, resVars, listVars, flagVars, nestVars, selVars, bldVars, txVars, ovlVars, objVars>>

nonOvlVars ==
    <<pipeVars, resVars, listVars, flagVars, nestVars, selVars, bldVars, txVars, mdlVars, objVars>>

nonObjVars ==
    <<pipeVars, resVars, listVars, flagVars, nestVars, selVars, bldVars, txVars, mdlVars,
      ovlVars>>

vars ==
    <<pipeVars, resVars, listVars, flagVars, nestVars, selVars, bldVars, txVars, mdlVars,
      ovlVars, objVars>>

(***************************************************************************)
(* The Model.  DataModel's constructor sets version '0.1'; a definition    *)
(* may override it, also with null.                                        *)
(***************************************************************************)
Versions == {"null", "0.1"}

Models == [version : Versions, sealed : BOOLEAN, hasBase : BOOLEAN,
           nBefore : 0..MaxHooks, nAfter : 0..MaxHooks]

\* JavaScript's == on the values a version takes here
LooseEq(a, b) ==
    \/ a = b
    \/ (a \in {"null", "undefined"} /\ b \in {"null", "undefined"})

\* DataModel.migrate: "model has already been migrated, so do nothing"
MigrationCachedMutant(cached, version) == FALSE
MigrationCached(cached, version) == LooseEq(cached, version)

\* the callback of db.executeInTransaction in DataModel.migrate: the version
\* is written to the cache when the transaction reports no error
CacheAfterTransaction(cached, version, err) ==
    IF err = "none" THEN version ELSE cached

(***************************************************************************)
(* The outcomes of the transaction of DataModel.migrate.                   *)
(***************************************************************************)
TransactionOutcomes ==
    {"ok", "updated", "baseErr", "beforeUpgradeErr", "migrateErr", "afterUpgradeErr"}

TransactionError(outcome) ==
    IF outcome \in {"ok", "updated"} THEN "none" ELSE "migrate"

\* whether db.migrate was called for the Model itself in the transaction
TransactionCallsMigrate(outcome) ==
    outcome \notin {"baseErr", "beforeUpgradeErr"}

(***************************************************************************)
(* The entries of an expand list, by the branch of afterExecute_ they take.*)
(***************************************************************************)
FetchKinds == {"parentAssociation", "childJunction", "parentJunction", "childAssociation"}

ExpandKinds == FetchKinds \cup
    { "otherModel",   \* a mapping whose parentModel and childModel both differ from the Model
      "otherType",    \* a mapping whose associationType is neither association nor junction
      "noField",      \* a name for which model.field() finds nothing
      "noMapping",    \* a field for which inferMapping returns nothing
      "invalid" }     \* neither a string, a mapping nor an object with a name

\* what afterExecute_ does with one entry of the expand list
ExpandBranch(kind) ==
    CASE kind \in FetchKinds -> "fetch"       \* getAssociatedChilds_v1 ... then cb()
      [] kind = "otherModel" -> "stall"       \* no branch taken: cb is never called
      [] kind = "otherType"  -> "error"       \* cb(new Error("Not yet implemented"))
      [] kind = "noField"    -> "skip"        \* console.log(...); cb(null)
      [] kind = "noMapping"  -> "error"       \* mapping.parentField throws; catch: cb(e)
      [] OTHER               -> "abort"       \* callback(new Error("Invalid expand option"))

\* finalExecuteInternal_: "if command has been completed, do not execute the
\* command against the underlying database"
DispatchMutant(eres) == "execute"
Dispatch(eres) == IF eres # "undefined" THEN "afterExecute" ELSE "execute"

\* finalExecuteInternal_: the dispatch is written in the callback of
\* emit('before.execute'), which runs once every listener has called back
DispatchReadyMutant(done, listeners) == TRUE
DispatchReady(done, listeners) == done = listeners

\* afterExecute_: toArrayCallback is called from the final callback of
\* async.eachSeries, which runs once every entry has called cb()
ExpandEndReadyMutant(idx, len) == TRUE
ExpandEndReady(idx, len) == idx = len

\* afterExecute_: async.eachSeries calls the iterator for the next entry
\* once the iterator of the previous entry has called cb()
IteratorReadyMutant(p) == p \in {"expand", "fetch"}
IteratorReady(p) == p = "expand"

\* finalExecuteInternal_: what follows afterExecute_
AfterExpansion(afterListenerCount) ==
    IF afterListenerCount = 0 THEN "callback" ELSE "after"

(***************************************************************************)
(* The caller's callback.                                                  *)
(***************************************************************************)
Deliver(err, value) ==
    /\ callbacks' = callbacks + 1
    /\ deliveredErr' = err
    /\ deliveredResult' = value
    /\ pc' = "done"

\* "if (err) { callback(err); return; }"
FailMutant(err) ==
    /\ failed' = err
    /\ Deliver("none", "none")
Fail(err) ==
    /\ failed' = err
    /\ Deliver(err, "none")

NoDelivery == UNCHANGED <<callbacks, deliveredErr, deliveredResult>>

(***************************************************************************)
(* Init: a Model with its listeners, nothing migrated, no operation yet.   *)
(***************************************************************************)
PipeInit ==
    /\ model \in Models
    /\ cache = [m \in {"M", "B"} |-> "undefined"]
    /\ pc = "idle"
    /\ runs = 0
    /\ qHasExpand = FALSE
    /\ qExpandLen = 0
    /\ qView = FALSE
    /\ expandIdx = 0
    /\ curKind = "none"
    /\ beforeDone = 0
    /\ afterDone = 0
    /\ eResult = "undefined"
    /\ result = "none"
    /\ hookSetResult = FALSE
    /\ execCalls = 0
    /\ execReturned = FALSE
    /\ fetchCalls = 0
    /\ trCalls = 0
    /\ migrateOk = {}
    /\ failed = "none"
    /\ callbacks = 0
    /\ deliveredErr = "none"
    /\ deliveredResult = "none"

(***************************************************************************)
(* A terminal operation starts: execute_ calls self.migrate.               *)
(***************************************************************************)
Start ==
    /\ pc \in {"idle", "done"}
    /\ UNCHANGED nonPipeVars
    /\ runs < MaxRuns
    /\ runs' = runs + 1
    /\ qHasExpand' \in BOOLEAN
    /\ qExpandLen' \in 0..MaxExpand
    /\ qHasExpand' = FALSE => qExpandLen' = 0
    /\ qView' \in BOOLEAN
    /\ pc' = "migrate"
    /\ expandIdx' = 0
    /\ curKind' = "none"
    /\ beforeDone' = 0
    /\ afterDone' = 0
    /\ eResult' = "undefined"
    /\ result' = "none"
    /\ hookSetResult' = FALSE
    /\ execCalls' = 0
    /\ execReturned' = FALSE
    /\ fetchCalls' = 0
    /\ failed' = "none"
    /\ callbacks' = 0
    /\ deliveredErr' = "none"
    /\ deliveredResult' = "none"
    /\ UNCHANGED <<model, cache, trCalls, migrateOk>>

\* DataModel.migrate up to db.executeInTransaction
Migrate ==
    /\ pc = "migrate"
    /\ UNCHANGED nonPipeVars
    /\ IF MigrationCached(cache["M"], model.version) \/ model.sealed
       THEN pc' = "prepare"
       ELSE pc' = "transaction"
    /\ UNCHANGED <<model, cache, runs, qHasExpand, qExpandLen, qView, expandIdx, curKind,
                   beforeDone, afterDone, eResult, result, hookSetResult,
                   execCalls, execReturned, fetchCalls, trCalls, migrateOk,
                   failed, callbacks, deliveredErr, deliveredResult>>

\* DataModel.migrate: the transaction and its callback
TransactionDone ==
    /\ pc = "transaction"
    /\ UNCHANGED nonPipeVars
    /\ \E outcome \in TransactionOutcomes :
        /\ (outcome = "baseErr") => model.hasBase
        /\ LET err == TransactionError(outcome) IN
           /\ cache' = [cache EXCEPT
                  !["M"] = CacheAfterTransaction(cache["M"], model.version, err),
                  !["B"] = IF model.hasBase /\ outcome # "baseErr"
                           THEN model.version ELSE @]
           /\ trCalls' = IF TransactionCallsMigrate(outcome) THEN trCalls + 1 ELSE trCalls
           /\ migrateOk' = IF err = "none" THEN migrateOk \cup {"M"} ELSE migrateOk
           /\ IF err = "none"
              THEN /\ pc' = "prepare"
                   /\ UNCHANGED failed
                   /\ NoDelivery
              ELSE Fail(err)
    /\ UNCHANGED <<model, runs, qHasExpand, qExpandLen, qView, expandIdx, curKind, beforeDone,
                   afterDone, eResult, result, hookSetResult, execCalls,
                   execReturned, fetchCalls>>

\* execute_ after migration: the view's filter is merged, and before.execute is emitted
Prepare ==
    /\ pc = "prepare"
    /\ UNCHANGED nonPipeVars
    /\ \E viewErr \in BOOLEAN :
        /\ viewErr => qView
        /\ IF viewErr
           THEN Fail("view")
           ELSE /\ pc' = "before"
                /\ UNCHANGED failed
                /\ NoDelivery
    /\ UNCHANGED <<model, cache, runs, qHasExpand, qExpandLen, qView, expandIdx, curKind,
                   beforeDone, afterDone, eResult, result, hookSetResult,
                   execCalls, execReturned, fetchCalls, trCalls, migrateOk>>

\* one before.execute listener calls back
BeforeHook ==
    /\ pc = "before"
    /\ UNCHANGED nonPipeVars
    /\ beforeDone < model.nBefore
    /\ \E outcome \in {"ok", "result", "error"} :
        CASE outcome = "error" ->
                /\ Fail("before")
                /\ UNCHANGED <<beforeDone, eResult, hookSetResult>>
          [] outcome = "result" ->
                /\ beforeDone' = beforeDone + 1
                /\ eResult' = "hook"
                /\ hookSetResult' = TRUE
                /\ UNCHANGED <<pc, failed>>
                /\ NoDelivery
          [] OTHER ->
                /\ beforeDone' = beforeDone + 1
                /\ UNCHANGED <<pc, failed, eResult, hookSetResult>>
                /\ NoDelivery
    /\ UNCHANGED <<model, cache, runs, qHasExpand, qExpandLen, qView, expandIdx, curKind,
                   afterDone, result, execCalls, execReturned, fetchCalls,
                   trCalls, migrateOk>>

\* the callback of emit('before.execute'): dispatch
BeforeEmitDone ==
    /\ pc = "before"
    /\ UNCHANGED nonPipeVars
    /\ DispatchReady(beforeDone, model.nBefore)
    /\ IF Dispatch(eResult) = "afterExecute"
       THEN /\ result' = eResult
            /\ pc' = "afterExecute"
            /\ UNCHANGED execCalls
       ELSE /\ execCalls' = execCalls + 1
            /\ pc' = "execute"
            /\ UNCHANGED result
    /\ UNCHANGED <<model, cache, runs, qHasExpand, qExpandLen, qView, expandIdx, curKind,
                   beforeDone, afterDone, eResult, hookSetResult, execReturned,
                   fetchCalls, trCalls, migrateOk, failed, callbacks,
                   deliveredErr, deliveredResult>>

\* the callback of context.db.execute
ExecuteDone ==
    /\ pc = "execute"
    /\ UNCHANGED nonPipeVars
    /\ execReturned' = TRUE
    /\ \E err \in BOOLEAN :
        IF err
        THEN /\ Fail("execute")
             /\ UNCHANGED result
        ELSE /\ result' = "db"
             /\ pc' = "afterExecute"
             /\ UNCHANGED failed
             /\ NoDelivery
    /\ UNCHANGED <<model, cache, runs, qHasExpand, qExpandLen, qView, expandIdx, curKind,
                   beforeDone, afterDone, eResult, hookSetResult, execCalls,
                   fetchCalls, trCalls, migrateOk>>

\* afterExecute_: "if (self.$expand)"
AfterExecute ==
    /\ pc = "afterExecute"
    /\ UNCHANGED nonPipeVars
    /\ pc' = IF qHasExpand THEN "expand" ELSE "toArray"
    /\ UNCHANGED <<model, cache, runs, qHasExpand, qExpandLen, qView, expandIdx, curKind,
                   beforeDone, afterDone, eResult, result, hookSetResult,
                   execCalls, execReturned, fetchCalls, trCalls, migrateOk,
                   failed, callbacks, deliveredErr, deliveredResult>>

\* the iterator of async.eachSeries for the next entry
ExpandEntry ==
    /\ IteratorReady(pc)
    /\ UNCHANGED nonPipeVars
    /\ expandIdx < qExpandLen
    /\ \E kind \in ExpandKinds :
        /\ curKind' = kind
        /\ CASE ExpandBranch(kind) = "fetch" ->
                   /\ pc' = "fetch"
                   /\ fetchCalls' = fetchCalls + 1
                   /\ UNCHANGED <<expandIdx, failed>>
                   /\ NoDelivery
             [] ExpandBranch(kind) = "skip" ->
                   /\ expandIdx' = expandIdx + 1
                   /\ UNCHANGED <<pc, fetchCalls, failed>>
                   /\ NoDelivery
             [] ExpandBranch(kind) = "stall" ->
                   /\ pc' = "stalled"
                   /\ UNCHANGED <<expandIdx, fetchCalls, failed>>
                   /\ NoDelivery
             [] OTHER ->
                   /\ Fail("expand")
                   /\ UNCHANGED <<expandIdx, fetchCalls>>
    /\ UNCHANGED <<model, cache, runs, qHasExpand, qExpandLen, qView, beforeDone, afterDone,
                   eResult, result, hookSetResult, execCalls, execReturned,
                   trCalls, migrateOk>>

\* the promise of the fetch of one entry settles
FetchDone ==
    /\ pc = "fetch"
    /\ UNCHANGED nonPipeVars
    /\ \E err \in BOOLEAN :
        IF err
        THEN /\ Fail("expand")
             /\ UNCHANGED expandIdx
        ELSE /\ expandIdx' = expandIdx + 1
             /\ pc' = "expand"
             /\ UNCHANGED failed
             /\ NoDelivery
    /\ UNCHANGED <<model, cache, runs, qHasExpand, qExpandLen, qView, curKind, beforeDone,
                   afterDone, eResult, result, hookSetResult, execCalls,
                   execReturned, fetchCalls, trCalls, migrateOk>>

\* the final callback of async.eachSeries
ExpandEnd ==
    /\ pc = "expand"
    /\ UNCHANGED nonPipeVars
    /\ ExpandEndReady(expandIdx, qExpandLen)
    /\ pc' = "toArray"
    /\ UNCHANGED <<model, cache, runs, qHasExpand, qExpandLen, qView, expandIdx, curKind,
                   beforeDone, afterDone, eResult, result, hookSetResult,
                   execCalls, execReturned, fetchCalls, trCalls, migrateOk,
                   failed, callbacks, deliveredErr, deliveredResult>>

\* toArrayCallback and the callback of afterExecute_ in finalExecuteInternal_
ToArray ==
    /\ pc = "toArray"
    /\ UNCHANGED nonPipeVars
    /\ IF AfterExpansion(model.nAfter) = "callback"
       THEN /\ Deliver("none", result)
            /\ UNCHANGED eResult
       ELSE /\ pc' = "after"
            \* "e.result = result" is in the adapter's branch only
            /\ eResult' = IF hookSetResult THEN eResult ELSE result
            /\ NoDelivery
    /\ UNCHANGED <<model, cache, runs, qHasExpand, qExpandLen, qView, expandIdx, curKind,
                   beforeDone, afterDone, result, hookSetResult, execCalls,
                   execReturned, fetchCalls, trCalls, migrateOk, failed>>

\* one after.execute listener calls back
AfterHook ==
    /\ pc = "after"
    /\ UNCHANGED nonPipeVars
    /\ afterDone < model.nAfter
    /\ \E outcome \in {"ok", "transform", "error"} :
        CASE outcome = "error" ->
                /\ Fail("after")
                /\ UNCHANGED <<afterDone, eResult>>
          [] outcome = "transform" ->
                /\ afterDone' = afterDone + 1
                /\ eResult' = "transformed"
                /\ UNCHANGED <<pc, failed>>
                /\ NoDelivery
          [] OTHER ->
                /\ afterDone' = afterDone + 1
                /\ UNCHANGED <<pc, failed, eResult>>
                /\ NoDelivery
    /\ UNCHANGED <<model, cache, runs, qHasExpand, qExpandLen, qView, expandIdx, curKind,
                   beforeDone, result, hookSetResult, execCalls, execReturned,
                   fetchCalls, trCalls, migrateOk>>

\* the callback of emit('after.execute'): "callback(null, result)"
AfterEmitDone ==
    /\ pc = "after"
    /\ UNCHANGED nonPipeVars
    /\ afterDone = model.nAfter
    /\ Deliver("none", result)
    /\ UNCHANGED <<model, cache, runs, qHasExpand, qExpandLen, qView, expandIdx, curKind,
                   beforeDone, afterDone, eResult, result, hookSetResult,
                   execCalls, execReturned, fetchCalls, trCalls, migrateOk, failed>>

PipeNext ==
    \/ Start
    \/ Migrate
    \/ TransactionDone
    \/ Prepare
    \/ BeforeHook
    \/ BeforeEmitDone
    \/ ExecuteDone
    \/ AfterExecute
    \/ ExpandEntry
    \/ FetchDone
    \/ ExpandEnd
    \/ ToArray
    \/ AfterHook
    \/ AfterEmitDone

\* the steps of the operation in flight
PipeStep ==
    \/ Migrate
    \/ TransactionDone
    \/ Prepare
    \/ BeforeHook
    \/ BeforeEmitDone
    \/ ExecuteDone
    \/ AfterExecute
    \/ ExpandEntry
    \/ FetchDone
    \/ ExpandEnd
    \/ ToArray
    \/ AfterHook
    \/ AfterEmitDone

(***************************************************************************)
(* The attribute resolver.  The Models of a small schema: an Order with    *)
(* two foreign keys to Person (one of them addressed by a property name    *)
(* too), a Person with the Orders that refer to it and a foreign key to    *)
(* Person itself, and a Group with a junction to Person.                   *)
(***************************************************************************)
ModelNames == {"Order", "Person", "Group"}

\* DataModel.fields of each Model (no Model of the schema has a base Model)
Schema ==
    [ Order  |-> << [name |-> "id",       property |-> "",       type |-> "Integer", many |-> FALSE, primary |-> TRUE],
                    [name |-> "customer", property |-> "",       type |-> "Person",  many |-> FALSE, primary |-> FALSE],
                    [name |-> "seller",   property |-> "vendor", type |-> "Person",  many |-> FALSE, primary |-> FALSE] >>,
      Person |-> << [name |-> "id",       property |-> "",       type |-> "Integer", many |-> FALSE, primary |-> TRUE],
                    [name |-> "name",     property |-> "",       type |-> "Text",    many |-> FALSE, primary |-> FALSE],
                    [name |-> "orders",   property |-> "",       type |-> "Order",   many |-> TRUE,  primary |-> FALSE],
                    [name |-> "manager",  property |-> "",       type |-> "Person",  many |-> FALSE, primary |-> FALSE] >>,
      Group  |-> << [name |-> "id",       property |-> "",       type |-> "Integer", many |-> FALSE, primary |-> TRUE],
                    [name |-> "name",     property |-> "",       type |-> "Text",    many |-> FALSE, primary |-> FALSE],
                    [name |-> "alternateName", property |-> "",  type |-> "Note",    many |-> FALSE, primary |-> FALSE],
                    [name |-> "members",  property |-> "",       type |-> "Person",  many |-> TRUE,  primary |-> FALSE] >> ]

\* the names of the schema that DataModel.PluralExpression matches
IsPlural(name) == name \in {"orders", "members"}

\* _.upperFirst, on the names of the schema that it is applied to
UpperFirst(name) == IF name = "members" THEN "Members" ELSE name

\* the attributes getter of DataModel, for a Model without a base Model
Attributes(m) == Schema[m]

\* the viewAdapter getter of DataModel
ViewAdapter(m) == m \o "Data"

\* DataModel.getPrimaryKey
PrimaryKey(m) ==
    LET p == SelectSeq(Schema[m], LAMBDA x : x.primary) IN
    IF Len(p) > 0 THEN p[1].name ELSE ""

\* DataModel.field: the attributes found by name or by property, in order
FieldsNamed(m, name) ==
    SelectSeq(Attributes(m), LAMBDA x : x.name = name \/ x.property = name)

HasField(m, name) == Len(FieldsNamed(m, name)) > 0

Field(m, name) == FieldsNamed(m, name)[1]

NoMapping ==
    [associationType |-> "none", parentModel |-> "", parentField |-> "",
     childModel |-> "", childField |-> "", associationAdapter |-> ""]

\* DataModel.inferMapping: the mapping inferred for a field whose type is a
\* Model, from the attributes of that Model whose type is this Model (back)
InferFrom(m, field, back) ==
    IF Len(back) > 0
    THEN IF back[1].many
         THEN [associationType |-> "association",
               parentModel |-> field.type, parentField |-> PrimaryKey(field.type),
               childModel |-> m, childField |-> field.name,
               associationAdapter |-> ""]
         ELSE [associationType |-> "association",
               parentModel |-> m, parentField |-> PrimaryKey(m),
               childModel |-> field.type, childField |-> back[1].name,
               associationAdapter |-> ""]
    ELSE IF IsPlural(field.name) \/ field.many
         THEN [associationType |-> "junction",
               parentModel |-> m, parentField |-> PrimaryKey(m),
               childModel |-> field.type, childField |-> PrimaryKey(field.type),
               associationAdapter |-> m \o UpperFirst(field.name)]
         ELSE [associationType |-> "association",
               parentModel |-> field.type, parentField |-> PrimaryKey(field.type),
               childModel |-> m, childField |-> field.name,
               associationAdapter |-> ""]

\* DataModel.inferMapping, for fields that carry no mapping of their own
InferMappingOf(m, field) ==
    IF field.type \notin ModelNames THEN NoMapping
    ELSE InferFrom(m, field,
             SelectSeq(Attributes(field.type), LAMBDA x : x.type = m))

InferMapping(m, name) ==
    IF ~HasField(m, name) THEN NoMapping ELSE InferMappingOf(m, Field(m, name))

\* a join expression: qry.entity(entity).as(as).left() with(left = right)
Join(entity, as, leftFrom, leftName, rightFrom, rightName) ==
    [entity |-> entity, as |-> as,
     with |-> <<leftFrom, leftName, rightFrom, rightName>>]

\* the result of a resolution: an error, or joins (array: whether a list is
\* returned rather than one join expression) and a field reference
ResolveError(msg) ==
    [ok |-> FALSE, error |-> msg, array |-> FALSE, joins |-> <<>>,
     select |-> [name |-> "", from |-> ""]]

Resolved(array, joins, name, from) ==
    [ok |-> TRUE, error |-> "", array |-> array, joins |-> joins,
     select |-> [name |-> name, from |-> from]]

\* the alias that the join of the child side of an association is given
ChildSideAlias(mapping, member) == mapping.childField

\* the alias that the join of the parent side of an association is given
ParentSideAlias(mapping, member) == member[1]

\* resolveNestedAttributeJoin: [res.$expand, expr] of a path of three segments
NestedJoins(first, rest) ==
    IF rest.ok THEN Resolved(TRUE, <<first>> \o rest.joins, "", "") ELSE rest

\* DataAttributeResolver.resolveNestedAttributeJoin, called for Model m with
\* the path member; alias is m._alias ("" when it is not set)
RECURSIVE ResolveNestedAttributeJoin(_, _, _)
ResolveWithMapping(m, member, alias, mapping) ==
    IF mapping.associationType = "none"
    THEN ResolveError("The target model does not have an association defined for attribute named " \o member[1])
    ELSE IF mapping.childModel = m /\ mapping.associationType = "association"
    THEN IF ~HasField(m, mapping.childField)
         THEN ResolveError("Association field cannot be found")
         ELSE IF ~HasField(mapping.parentModel, mapping.parentField)
         THEN ResolveError("Referenced field cannot be found")
         ELSE IF Len(member) > 2
         THEN NestedJoins(
                  Join(ViewAdapter(mapping.parentModel), ChildSideAlias(mapping, member),
                       IF alias # "" THEN alias ELSE ViewAdapter(m),
                       Field(m, mapping.childField).name,
                       mapping.childField, mapping.parentField),
                  ResolveNestedAttributeJoin(mapping.parentModel,
                       <<member[2], member[3]>>, mapping.childField))
         ELSE Resolved(FALSE,
                  << Join(ViewAdapter(mapping.parentModel), ChildSideAlias(mapping, member),
                          IF alias # "" THEN alias ELSE ViewAdapter(m),
                          Field(m, mapping.childField).name,
                          mapping.childField, mapping.parentField) >>,
                  "", "")
    ELSE IF mapping.parentModel = m /\ mapping.associationType = "association"
    THEN IF ~HasField(mapping.childModel, mapping.childField)
         THEN ResolveError("Association field cannot be found")
         ELSE IF ~HasField(m, mapping.parentField)
         THEN ResolveError("Referenced field cannot be found")
         ELSE Resolved(FALSE,
                  << Join(ViewAdapter(mapping.childModel), ParentSideAlias(mapping, member),
                          ViewAdapter(m), Field(m, mapping.parentField).name,
                          member[1], Field(mapping.childModel, mapping.childField).name) >>,
                  "", "")
    ELSE ResolveError("The association type is not supported for filtering, grouping or sorting data")

ResolveNestedAttributeJoin(m, member, alias) ==
    IF ~HasField(m, member[1])
    THEN ResolveError("The target model does not have an attribute named as " \o member[1])
    ELSE ResolveWithMapping(m, member, alias, InferMapping(m, member[1]))

\* resolveJunctionAttributeJoin: the joins of a junction, given the alias of
\* the joined Model, the field of the junction that refers to this Model
\* (own), the one that refers to the joined Model (other), and the Model and
\* key that are joined
JunctionJoins(m, member, fname, as, ownKey, own, other, joinedModel, joinedKey, adapter) ==
    IF member[2] = joinedKey
    THEN Resolved(TRUE,
             << Join(adapter, fname, ViewAdapter(m), ownKey, fname, own) >>,
             other, fname)
    ELSE Resolved(TRUE,
             << Join(adapter, fname, ViewAdapter(m), ownKey, fname, own),
                Join(ViewAdapter(joinedModel), as, fname, other, as, joinedKey) >>,
             member[2], as)

\* DataAttributeResolver.resolveJunctionAttributeJoin, called for Model m
JunctionWithMapping(m, member, fname, mapping) ==
    IF mapping.parentModel = m
    THEN JunctionJoins(m, member, fname, fname \o "_" \o mapping.childModel,
             mapping.parentField, "parentId", "valueId",
             mapping.childModel, mapping.childField, mapping.associationAdapter)
    ELSE JunctionJoins(m, member, fname, fname \o "_" \o mapping.parentModel,
             mapping.childField, "valueId", "parentId",
             mapping.parentModel, mapping.parentField, mapping.associationAdapter)

ResolveJunctionAttributeJoin(m, member) ==
    JunctionWithMapping(m, member, Field(m, member[1]).name, InferMapping(m, member[1]))

\* resolveNestedAttribute: the field reference that goes with the joins
WithSelect(r, member) ==
    IF ~r.ok THEN r
    ELSE IF Len(member) > 2
         THEN Resolved(r.array, r.joins, member[3], member[2])
         ELSE Resolved(r.array, r.joins, member[2], member[1])

\* resolveNestedAttribute: the joins and the field reference of a path
ResolveByType(m, member, associationType) ==
    IF associationType = "junction"
    THEN ResolveJunctionAttributeJoin(m, member)
    ELSE WithSelect(ResolveNestedAttributeJoin(m, member, ""), member)

ResolvePath(m, member) ==
    ResolveByType(m, member, InferMapping(m, member[1]).associationType)

\* resolveNestedAttribute: a join is pushed when no join of the list has its alias
RECURSIVE PushDistinct(_, _)
PushDistinct(list, new) ==
    IF new = <<>> THEN list
    ELSE LET y == Head(new)
             found == \E i \in 1..Len(list) : list[i].as # "" /\ list[i].as = y.as
         IN  PushDistinct(IF found THEN list ELSE Append(list, y), Tail(new))

\* resolveNestedAttribute: query.$expand after the joins of a resolution are
\* merged into it
MergeExpand(expand, r) ==
    IF expand.shape = "undefined"
    THEN [shape |-> IF r.array THEN "array" ELSE "object", joins |-> r.joins]
    ELSE [shape |-> "array", joins |-> PushDistinct(expand.joins, r.joins)]

\* the nested paths given to the builder methods, by Model
Paths(m) ==
    CASE m = "Order"  -> { <<"customer", "name">>, <<"seller", "name">>, <<"vendor", "name">>,
                           <<"customer", "id">>, <<"customer", "manager", "name">>,
                           <<"id", "name">>, <<"buyer", "name">> }
      [] m = "Person" -> { <<"orders", "id">>, <<"manager", "name">>,
                           <<"manager", "manager", "name">>, <<"orders", "customer", "name">>,
                           <<"name", "id">> }
      [] OTHER        -> { <<"members", "id">>, <<"members", "name">> }

NoCall == [method |-> "none", path |-> <<>>, status |-> "none", error |-> "",
           channel |-> "none",
           select |-> [name |-> "", from |-> ""], joins |-> <<>>,
           added |-> 0, before |-> 0]

\* clone: "_.assign(result.query, this.query)" gives the query of the clone
\* the values of the properties of the query of the original, so an array in
\* query.$expand is one array in both (shared) until one of the two assigns
\* the property again; atClone is query.$expand when clone() was called
NotCloned ==
    [cloned |-> FALSE, shared |-> FALSE,
     original |-> [shape |-> "undefined", joins |-> <<>>],
     atClone |-> [shape |-> "undefined", joins |-> <<>>]]

\* resolveNestedAttribute on the clone: "self.query.$expand.push(y)" changes
\* the array in place, the other branches assign query.$expand
CloneAfter(c, expand, merged) ==
    IF c.cloned /\ c.shared /\ expand.shape = "array"
    THEN [c EXCEPT !.original = merged]
    ELSE [c EXCEPT !.shared = FALSE]

ResInit ==
    /\ rModel \in ModelNames
    /\ rExpand = [shape |-> "undefined", joins |-> <<>>]
    /\ rLast = NoCall
    /\ rCalls = 0
    /\ rClone = NotCloned

\* the largest number of builder calls made on one Queryable
MaxCalls == 3

\* a builder method passes the field reference of a resolution to the query
\* expression, after the joins are merged into query.$expand
Resolve(method, member, r, outcome) ==
    IF r.ok
    THEN /\ rExpand' = MergeExpand(rExpand, r)
         /\ rLast' = [method |-> method, path |-> member, status |-> outcome.status,
                      error |-> outcome.error, channel |-> outcome.channel,
                      select |-> r.select, joins |-> r.joins,
                      added |-> Len(rExpand'.joins) - Len(rExpand.joins),
                      before |-> Len(rExpand.joins)]
    ELSE /\ rExpand' = rExpand
         /\ rLast' = [method |-> method, path |-> member, status |-> "error",
                      error |-> r.error, channel |-> "thrown",
                      select |-> r.select, joins |-> <<>>,
                      added |-> 0, before |-> Len(rExpand.joins)]

\* a builder method resolves the nested path it is given
CallThen(method, member, outcome) ==
    /\ rCalls < MaxCalls
    /\ rCalls' = rCalls + 1
    /\ Resolve(method, member, ResolvePath(rModel, member), outcome)
    /\ rClone' = IF ResolvePath(rModel, member).ok
                 THEN CloneAfter(rClone, rExpand,
                                 MergeExpand(rExpand, ResolvePath(rModel, member)))
                 ELSE rClone
    /\ UNCHANGED rModel
    /\ UNCHANGED nonResVars

Call(method, member) ==
    CallThen(method, member, [status |-> "ok", error |-> "", channel |-> "none"])

Where == \E member \in Paths(rModel) : Call("where", member)

And == \E member \in Paths(rModel) : rLast.method # "none" /\ Call("and", member)

Or == \E member \in Paths(rModel) : rLast.method # "none" /\ Call("or", member)

OrderBy == \E member \in Paths(rModel) : Call("orderBy", member)

GroupBy == \E member \in Paths(rModel) : Call("groupBy", member)

Select == \E member \in Paths(rModel) : Call("select", member)

\* max, min and average: the channel through which the outcome of the
\* execution reaches the caller
Channel(hasCallback) == IF hasCallback THEN "callback" ELSE "promise"

\* max(attr, callback) and max(attr): the attribute is resolved, which
\* throws when it fails, and the query is executed, with or without an error
Max ==
    \E member \in Paths(rModel), hasCallback \in BOOLEAN, err \in BOOLEAN :
        CallThen("max", member,
                 [status |-> IF err THEN "error" ELSE "ok",
                  error |-> IF err THEN "execute" ELSE "",
                  channel |-> Channel(hasCallback)])

\* DataQueryable.prototype.clone; the calls that follow are made on the clone
Clone ==
    /\ ~rClone.cloned
    /\ UNCHANGED nonResVars
    /\ rClone' = [cloned |-> TRUE, shared |-> rExpand.shape = "array",
                  original |-> rExpand, atClone |-> rExpand]
    /\ UNCHANGED <<rModel, rExpand, rLast, rCalls>>

ResNext ==
    \/ Clone
    \/ Max
    \/ Where
    \/ And
    \/ Or
    \/ OrderBy
    \/ GroupBy
    \/ Select

(***************************************************************************)
(* Paging.  list() runs the query with its paging parameters and then      *)
(* counts the rows on a clone of the query.  The rows that match the       *)
(* filter of the Queryable are represented by their number, which does not *)
(* change while list() runs.                                               *)
(***************************************************************************)
\* the largest number of matching rows, of rows to skip and of rows to take
MaxRows == 27
MaxSkip == 2
MaxTake == 2

\* var take = self.query.$take || 25
DefaultTake == 25

\* a paging parameter of the query expression: undefined, or a number
Undefined == [set |-> FALSE, n |-> 0]
Num(n) == [set |-> TRUE, n |-> n]

\* x || d, for a paging parameter x
OrDefault(x, d) == IF x.set /\ x.n # 0 THEN x.n ELSE d

\* the number of rows that a statement with the paging parameters of q returns
Window(n, q) ==
    LET from == IF n > OrDefault(q.skip, 0) THEN n - OrDefault(q.skip, 0) ELSE 0 IN
    IF q.take.set /\ q.take.n > 0 /\ q.take.n < from THEN q.take.n ELSE from

\* countInternal: the paging parameters are removed from the query
RemovePagingMutant(q) == q
RemovePaging(q) == [q EXCEPT !.skip = Undefined, !.take = Undefined]

NoResult == [status |-> "none", total |-> 0, skip |-> 0, records |-> 0, expanded |-> 0]

ListInit ==
    /\ rows \in 0..MaxRows
    /\ query = [skip |-> Undefined, take |-> Undefined, expand |-> 0]
    /\ q1 = [skip |-> Undefined, take |-> Undefined, expand |-> 0]
    /\ lpc = "build"
    /\ given = [skip |-> Undefined, take |-> Undefined, expand |-> 0]
    /\ res = NoResult

\* DataQueryable.skip
Skip ==
    /\ lpc = "build"
    /\ UNCHANGED nonListVars
    /\ \E n \in 0..MaxSkip : query' = [query EXCEPT !.skip = Num(n)]
    /\ UNCHANGED <<rows, q1, lpc, given, res>>

\* DataQueryable.expand: an entry is added to the expand list of the Queryable
ExpandList ==
    /\ lpc = "build"
    /\ UNCHANGED nonListVars
    /\ query.expand < MaxExpand
    /\ query' = [query EXCEPT !.expand = @ + 1]
    /\ UNCHANGED <<rows, q1, lpc, given, res>>

\* countInternal: execute_ ends in afterExecute_, which expands each entry of
\* the expand list of the Queryable that is counted
CountExpansions(q) == q.expand

\* DataQueryable.take, without a callback
Take ==
    /\ lpc = "build"
    /\ UNCHANGED nonListVars
    /\ \E n \in 0..MaxTake : query' = [query EXCEPT !.take = Num(n)]
    /\ UNCHANGED <<rows, q1, lpc, given, res>>

\* listInternal, up to the statement that takeInternal executes: the query is
\* cloned and then given the number of rows to take
List ==
    /\ lpc = "build"
    /\ UNCHANGED nonListVars
    /\ given' = query
    /\ q1' = query
    /\ query' = [query EXCEPT !.take = Num(OrDefault(query.take, DefaultTake))]
    /\ lpc' = "take"
    /\ UNCHANGED <<rows, res>>

\* listInternal: the callback of self.take, with an error or with the rows;
\* on success the clone is counted, with its paging parameters removed
TakeDone ==
    /\ lpc = "take"
    /\ UNCHANGED nonListVars
    /\ \E ok \in BOOLEAN :
         IF ok
         THEN /\ res' = [res EXCEPT !.records = Window(rows, query)]
              /\ q1' = RemovePaging(q1)
              /\ lpc' = "count"
         ELSE /\ res' = [res EXCEPT !.status = "error"]
              /\ q1' = q1
              /\ lpc' = "done"
    /\ UNCHANGED <<rows, query, given>>

\* listInternal: the callback of q1.count, with an error or with the total
CountDone ==
    /\ lpc = "count"
    /\ UNCHANGED nonListVars
    /\ \E ok \in BOOLEAN :
         IF ok
         THEN res' = [res EXCEPT !.status = "ok",
                                 !.expanded = CountExpansions(q1),
                                 !.total = Window(rows, q1),
                                 !.skip = OrDefault(query.skip, 0)]
         ELSE res' = [res EXCEPT !.status = "error", !.records = 0]
    /\ lpc' = "done"
    /\ UNCHANGED <<rows, query, q1, given>>

ListNext ==
    \/ ExpandList
    \/ Skip
    \/ Take
    \/ List
    \/ TakeDone
    \/ CountDone

(***************************************************************************)
(* The expansion flags of a Queryable: expand(), levels() and flatten(),   *)
(* and what a terminal operation expands.  The Model has an expandable     *)
(* association "customer" and an association "seller" that is not          *)
(* expandable; the projection of the Queryable holds both.                 *)
(***************************************************************************)
\* the largest value given to levels(), the largest number of builder calls
\* made on one Queryable
MaxLevels == 2
MaxBuild == 3

ExpandNames == {"customer", "seller"}

Expandables == {"customer"}

\* new DataQueryable(model): $expand and $flatten undefined, $levels not set
NewQueryable ==
    [expand |-> [set |-> FALSE, list |-> <<>>], levels |-> Undefined, flatten |-> "undefined"]

\* DataQueryable.getLevels
GetLevels(q) == IF q.levels.set THEN q.levels.n ELSE 1

\* DataQueryable.expand(attr), for a string or for null
Expand(q, attr) ==
    IF attr = "null"
    THEN [q EXCEPT !.expand = [set |-> FALSE, list |-> <<>>]]
    ELSE [q EXCEPT !.expand = [set |-> TRUE, list |-> Append(q.expand.list, attr)]]

\* DataQueryable.levels(value), for undefined or for a number
LevelsMutant(q, value) == q
Levels(q, value) ==
    LET n == IF value.set THEN value.n ELSE 1 IN
    [q EXCEPT !.levels = Num(n), !.flatten = IF n < 1 THEN "true" ELSE "false"]

\* DataQueryable.flatten(value), for undefined, true or false
Flatten(q, value) ==
    IF value \in {"true", "undefined"}
    THEN [q EXCEPT !.expand = [set |-> FALSE, list |-> <<>>],
                   !.flatten = "true", !.levels = Num(0)]
    ELSE [q EXCEPT !.flatten = "undefined"]

\* execute_: var flatten = self.$flatten || (self.getLevels()===0)
Flattened(q) == q.flatten = "true" \/ GetLevels(q) = 0

\* execute_: the expandable fields of the projection are registered in the
\* expand list, unless the Queryable is flattened
Registered(q) == IF Flattened(q) THEN {} ELSE Expandables

\* afterExecute_: the associations that are fetched: "if (self.$expand)" and
\* then every entry of the list
Expanded(q) ==
    (IF q.expand.set THEN {q.expand.list[i] : i \in 1..Len(q.expand.list)} ELSE {})
        \cup Registered(q)

NoBuild == [method |-> "none", value |-> Undefined, before |-> NewQueryable]

FlagsInit ==
    /\ fq = NewQueryable
    /\ fLast = NoBuild
    /\ fRun = [done |-> FALSE, calls |-> 0, expanded |-> {}]

ExpandCall ==
    /\ ~fRun.done
    /\ UNCHANGED nonFlagVars
    /\ fRun.calls < MaxBuild
    /\ \E attr \in ExpandNames \cup {"null"} :
        /\ fq' = Expand(fq, attr)
        /\ fLast' = [method |-> "expand", value |-> Undefined, before |-> fq]
    /\ fRun' = [fRun EXCEPT !.calls = @ + 1]

LevelsCall ==
    /\ ~fRun.done
    /\ UNCHANGED nonFlagVars
    /\ fRun.calls < MaxBuild
    /\ \E value \in {Undefined} \cup {Num(n) : n \in -1..MaxLevels} :
        /\ fq' = Levels(fq, value)
        /\ fLast' = [method |-> "levels", value |-> value, before |-> fq]
    /\ fRun' = [fRun EXCEPT !.calls = @ + 1]

FlattenCall ==
    /\ ~fRun.done
    /\ UNCHANGED nonFlagVars
    /\ fRun.calls < MaxBuild
    /\ \E value \in {"undefined", "true", "false"} :
        /\ fq' = Flatten(fq, value)
        /\ fLast' = [method |-> "flatten", value |-> Undefined, before |-> fq]
    /\ fRun' = [fRun EXCEPT !.calls = @ + 1]

\* a terminal operation: execute_ and afterExecute_
Terminal ==
    /\ ~fRun.done
    /\ UNCHANGED nonFlagVars
    /\ fRun' = [fRun EXCEPT !.done = TRUE, !.expanded = Expanded(fq)]
    /\ UNCHANGED <<fq, fLast>>

FlagsNext ==
    \/ ExpandCall
    \/ LevelsCall
    \/ FlattenCall
    \/ Terminal

(***************************************************************************)
(* Recursive expansion.  The fetch of an association is a terminal         *)
(* operation of a Queryable of the associated Model, made by filter() from *)
(* the options of the expand entry.  The Models form a ring: the           *)
(* association of a Model, when it has one, refers to the next Model.      *)
(***************************************************************************)
\* the largest number of nested Queryables that are followed
MaxDepth == 4

NextModel(m) ==
    CASE m = "Order" -> "Person"
      [] m = "Person" -> "Group"
      [] OTHER -> "Order"

\* a Queryable with the levels it was given: by levels(n), or by filter()
\* from the $levels of its parameters, or not at all
WithLevels(levels) ==
    IF levels.set THEN Levels(NewQueryable, levels) ELSE NewQueryable

\* afterExecute_: the $levels of the options of a fetch, when the options of
\* the entry have none
LevelsOption(q) ==
    IF q.levels.set THEN Num(GetLevels(q) - 1) ELSE Undefined

\* execute_: whether the Queryable registers the expandable association of
\* its Model
Registers(schema, m, q) == (~Flattened(q)) /\ m \in schema

NestInit ==
    /\ nSchema \in SUBSET ModelNames
    /\ nModel \in ModelNames
    /\ nLevels \in {Undefined} \cup {Num(n) : n \in -1..MaxLevels}
    /\ nTop = nLevels
    /\ nCaller = 0
    /\ nDepth = 0
    /\ npc = "run"

\* the Queryable that runs expands its association: the fetch makes a
\* Queryable of the associated Model and runs it
NestFetch ==
    /\ npc = "run"
    /\ UNCHANGED nonNestVars
    /\ nDepth < MaxDepth
    /\ Registers(nSchema, nModel, WithLevels(nLevels))
    /\ nLevels' = LevelsOption(WithLevels(nLevels))
    /\ nCaller' = GetLevels(WithLevels(nLevels))
    /\ nModel' = NextModel(nModel)
    /\ nDepth' = nDepth + 1
    /\ UNCHANGED <<nSchema, nTop, npc>>

\* the Queryable that runs has nothing to expand
NestReturn ==
    /\ npc = "run"
    /\ UNCHANGED nonNestVars
    /\ ~Registers(nSchema, nModel, WithLevels(nLevels))
    /\ npc' = "done"
    /\ UNCHANGED <<nSchema, nModel, nLevels, nTop, nCaller, nDepth>>

NestNext ==
    \/ NestFetch
    \/ NestReturn

(***************************************************************************)
(* The projection.  The Model has the fields id and name, the many field   *)
(* orders, and (in some Models) the field groups, whose mapping is a       *)
(* junction; its view "summary" holds id and orders.                       *)
(***************************************************************************)
\* the largest number of select() and join() calls made on one Queryable
MaxSelects == 2

\* the fields of the Model m: a Model may have no field at all, or the many
\* field orders and no other
SelectFields(m) ==
    IF m.bare = "empty" THEN {}
    ELSE IF m.bare = "manyOnly"
    THEN { [name |-> "orders", many |-> TRUE, junction |-> FALSE, expandable |-> m.expandable, hidden |-> FALSE] }
    ELSE
    { [name |-> "id",     many |-> FALSE, junction |-> FALSE, expandable |-> FALSE, hidden |-> FALSE],
      [name |-> "name",   many |-> FALSE, junction |-> FALSE, expandable |-> FALSE,
        hidden |-> m.hidden],
      [name |-> "orders", many |-> TRUE,  junction |-> FALSE, expandable |-> m.expandable, hidden |-> FALSE] }
    \cup (IF m.groups
          THEN { [name |-> "groups", many |-> FALSE, junction |-> TRUE, expandable |-> FALSE, hidden |-> FALSE] }
          ELSE {})
    \cup { [name |-> n, many |-> FALSE, junction |-> FALSE, expandable |-> FALSE, hidden |-> FALSE] :
               n \in m.assoc }

ViewFields == {"id", "orders"}

\* select: field.many || (field.mapping && field.mapping.associationType === 'junction')
IsMany(f) == f.many \/ f.junction

\* the names given to select() that model.field() finds, and those it does
\* not find because they are written "name as alias"
Plain(items) == {x.name : x \in {y \in items : ~y.aliased}}

Aliased(items) == {x.name : x \in {y \in items : y.aliased}}

NamesOf(fs) == {f.name : f \in fs}

\* select: the fields that are enumerated when none is selected
DefaultFieldsMutant(fs, levels) == {f \in fs : ~f.many}
DefaultFields(fs, levels) ==
    {f \in fs : (~f.many) \/ (f.expandable /\ levels > 0)}

\* select, for names that model.field() finds: the many fields and the
\* junctions are given to expand(), the others to the projection; a name
\* written with an alias goes through select_ and fieldOf to the projection
Projected(fs, plain, aliased) ==
    NamesOf({f \in fs : f.name \in plain /\ ~IsMany(f)}) \cup aliased

ToExpand(fs, plain) == NamesOf({f \in fs : f.name \in plain /\ IsMany(f)})

\* execute_: unless the Queryable is flattened or has levels 0, the hidden
\* fields are removed from the projection
RemoveHidden(q, fs, levels) ==
    IF levels = 0 THEN q
    ELSE [q EXCEPT !.select.fields = @ \ NamesOf({f \in fs : f.hidden})]

\* select: "return self.select.apply(self, fields)" comes back to the same
\* statement, with arr nil and no field in the query, when no field is
\* enumerated (select is called with no argument again) and when the one
\* field enumerated is given to expand() (select is called with a string)
EndlessSelect(fs, levels) ==
    \/ DefaultFields(fs, levels) = {}
    \/ /\ Cardinality(DefaultFields(fs, levels)) = 1
       /\ \A f \in DefaultFields(fs, levels) : IsMany(f)

\* select: "if (_.isNil(arr))": the fields are enumerated and selected when
\* the query has none
SelectDefault(q, fs, levels) ==
    IF q.select.set /\ q.select.fields # {}
    THEN q
    ELSE IF EndlessSelect(fs, levels)
    THEN [q EXCEPT !.expand = @ \cup ToExpand(fs, NamesOf(DefaultFields(fs, levels))),
                   !.endless = TRUE]
    ELSE [select |-> [set |-> TRUE,
                      fields |-> Projected(fs, NamesOf(DefaultFields(fs, levels)), {})],
          expand |-> q.expand \cup ToExpand(fs, NamesOf(DefaultFields(fs, levels))),
          endless |-> FALSE]

\* select: "self.query.select(arr)", after the many fields were expanded
SelectArr(q, fs, plain, aliased) ==
    [select |-> [set |-> TRUE, fields |-> Projected(fs, plain, aliased)],
     expand |-> q.expand \cup ToExpand(fs, plain), endless |-> FALSE]

\* DataQueryable.prototype.select
SelectOf(q, arg, fs, levels) ==
    CASE arg.kind = "star" -> [q EXCEPT !.select = [set |-> FALSE, fields |-> {}]]
      [] arg.kind = "none" -> SelectDefault(q, fs, levels)
      [] arg.kind = "array" -> SelectArr(q, fs, Plain(arg.items), Aliased(arg.items))
      [] arg.kind = "view" ->
            IF Projected(fs, ViewFields, {}) = {}
            THEN SelectDefault([q EXCEPT !.expand = @ \cup ToExpand(fs, ViewFields)], fs, levels)
            ELSE SelectArr(q, fs, ViewFields, {})
      [] OTHER ->
            IF Projected(fs, Plain(arg.items), Aliased(arg.items)) = {}
            THEN SelectDefault([q EXCEPT !.expand = @ \cup ToExpand(fs, Plain(arg.items))],
                               fs, levels)
            ELSE SelectArr(q, fs, Plain(arg.items), Aliased(arg.items))

\* the arguments given to select()
SelectItems == [name : {"id", "name", "orders", "groups"} \cup ExpandNames, aliased : BOOLEAN]

SelectArgs(fs) ==
    { [kind |-> k, items |-> {}] : k \in {"star", "none", "view"} }
    \cup { [kind |-> "string", items |-> {x}] : x \in {y \in SelectItems : y.name \in NamesOf(fs)} }
    \cup { [kind |-> "array", items |-> {x, [name |-> "id", aliased |-> FALSE]}] :
               x \in {y \in SelectItems : y.name \in NamesOf(fs) \ {"id"}} }

\* join: the fields of the Model whose type is the joined joined model, in the
\* order of the attributes
JoinModels == {"null", "Person", "Unknown"}

Associated(m, joinModel) ==
    IF joinModel # "Person" THEN <<>>
    ELSE (IF "customer" \in m.assoc THEN <<"customer">> ELSE <<>>)
         \o (IF "seller" \in m.assoc THEN <<"seller">> ELSE <<>>)

\* join: the error it throws, or "none"
JoinError(m, joinModel) ==
    CASE joinModel = "null" -> "none"
      [] joinModel = "Unknown" -> "modelNotFound"
      [] Len(Associated(m, joinModel)) = 0 -> "associationNotFound"
      [] OTHER -> "none"

\* join: the join it appends, on the mapping of arr[0]
Joined(arr, joinModel) ==
    IF Len(arr) = 0 THEN <<>> ELSE <<[entity |-> joinModel, field |-> arr[1]]>>

NoArg == [kind |-> "none", items |-> {}]

SelInit ==
    /\ sModel \in [expandable : BOOLEAN, groups : BOOLEAN, assoc : SUBSET ExpandNames,
                  bare : {"no", "empty", "manyOnly"}, hidden : BOOLEAN]
    /\ sModel.bare # "no" => (~sModel.groups /\ sModel.assoc = {} /\ ~sModel.hidden)
    /\ sLevels \in {Undefined} \cup {Num(n) : n \in 0..MaxLevels}
    /\ sq = [select |-> [set |-> FALSE, fields |-> {}], expand |-> {}, endless |-> FALSE]
    /\ sCalls = <<>>
    /\ sLast = NoArg
    /\ sJoins = <<>>
    /\ sErr = "none"
    /\ sRan = FALSE

SelectCall ==
    /\ ~sRan
    /\ sErr = "none"
    /\ ~sq.endless
    /\ UNCHANGED nonSelVars
    /\ Len(sCalls) < MaxSelects
    /\ \E arg \in SelectArgs(SelectFields(sModel)) :
        /\ sq' = SelectOf(sq, arg, SelectFields(sModel), GetLevels(WithLevels(sLevels)))
        /\ sCalls' = Append(sCalls, arg.kind)
        /\ sLast' = arg
    /\ UNCHANGED <<sModel, sLevels, sJoins, sErr, sRan>>

\* DataQueryable.prototype.join
JoinCall ==
    /\ ~sRan
    /\ sErr = "none"
    /\ ~sq.endless
    /\ UNCHANGED nonSelVars
    /\ Len(sCalls) < MaxSelects
    /\ \E joinModel \in JoinModels :
        /\ sErr' = JoinError(sModel, joinModel)
        /\ sq' = IF joinModel = "null" \/ JoinError(sModel, joinModel) # "none"
                 THEN sq
                 ELSE SelectDefault(sq, SelectFields(sModel), GetLevels(WithLevels(sLevels)))
        /\ sJoins' = IF JoinError(sModel, joinModel) # "none"
                     THEN sJoins
                     ELSE sJoins \o Joined(Associated(sModel, joinModel), joinModel)
        /\ sCalls' = Append(sCalls, "join")
        /\ sLast' = [kind |-> "join", items |-> {[name |-> joinModel, aliased |-> FALSE]}]
    /\ UNCHANGED <<sModel, sLevels, sRan>>

\* a terminal operation: allInternal selects the fields when the query has
\* none, and execute_ removes the hidden fields; no field of the projection
\* of this Model is expandable, so execute_ registers nothing
SelectRun ==
    /\ ~sRan
    /\ sErr = "none"
    /\ ~sq.endless
    /\ UNCHANGED nonSelVars
    /\ sq' = RemoveHidden(SelectDefault(sq, SelectFields(sModel), GetLevels(WithLevels(sLevels))),
                          SelectFields(sModel), GetLevels(WithLevels(sLevels)))
    /\ sRan' = TRUE
    /\ UNCHANGED <<sModel, sLevels, sCalls, sLast, sJoins, sErr>>

SelNext ==
    \/ SelectCall
    \/ JoinCall
    \/ SelectRun

(***************************************************************************)
(* The filter.  query.$where holds the expression under construction, a    *)
(* disjunction of predicates; query.prepare() moves it into                *)
(* query.$prepared, the conjunction of the expressions prepared so far.    *)
(* A text given to search() is the sequence of the matches of its regular  *)
(* expression: words and quoted phrases.                                   *)
(***************************************************************************)
\* the largest number of builder calls made on one Queryable
MaxBuilderCalls == 2

\* the values given to search(): whether the value is a string, and the
\* matches of the regular expression in it
SearchTexts ==
    { [string |-> TRUE, matches |-> t] :
          t \in { <<>>,
                  << [quoted |-> FALSE, value |-> "Alex"] >>,
                  << [quoted |-> FALSE, value |-> "Alex"], [quoted |-> FALSE, value |-> "Rees"] >>,
                  << [quoted |-> TRUE, value |-> "Alex Rees"] >>,
                  << [quoted |-> TRUE, value |-> " "], [quoted |-> FALSE, value |-> "Rees"] >>,
                  << [quoted |-> TRUE, value |-> ""] >> } }

NotAString == [string |-> FALSE, matches |-> <<>>]

\* search: terms.push(match[2]) for a phrase that is not empty, match[0]
\* (the phrase with its quotes) otherwise
Term(match) ==
    IF match.quoted /\ match.value = "" THEN "\"\"" ELSE match.value

\* search: the terms that pass !/^\s+$/.test(w)
TermsMutant(text) == IF Len(text) = 0 THEN {} ELSE {Term(text[1])}
Terms(text) == {Term(text[i]) : i \in 1..Len(text)} \ {" "}

\* search: var stringTypes = [ "Text", "URL", "Note" ]
StringTypes == {"Text", "URL", "Note"}

\* search: the attributes given to or(): for each attribute x that is not
\* many, the string attributes z of the parent Model of its association as
\* x/z, and x itself when it is a string
ParentAttributes(m, x, mapping) ==
    IF mapping.associationType = "association" /\ mapping.childModel = m
    THEN {x.name \o "/" \o z.name :
              z \in {Attributes(mapping.parentModel)[i] :
                         i \in {j \in 1..Len(Attributes(mapping.parentModel)) :
                                    Attributes(mapping.parentModel)[j].type \in StringTypes}}}
    ELSE {}

SearchAttributes(m) ==
    UNION { ParentAttributes(m, x, InferMapping(m, x.name))
            \cup (IF x.type \in StringTypes THEN {x.name} ELSE {}) :
            x \in {Attributes(m)[i] : i \in {j \in 1..Len(Attributes(m)) : ~Attributes(m)[j].many}} }

\* QueryExpression.prepare: $where is ANDed to $prepared and deleted
PrepareQuery(q) ==
    IF q.where = {} THEN q
    ELSE [prepared |-> Append(q.prepared, q.where), where |-> {}]

\* DataQueryable.prototype.search
Search(q, m, text) ==
    IF ~text.string \/ Len(text.matches) = 0
    THEN q
    ELSE PrepareQuery([prepared |-> PrepareQuery(q).prepared,
                  where |-> {[attr |-> a, op |-> "contains", value |-> w] :
                                 a \in SearchAttributes(m), w \in Terms(text.matches)}])

\* the largest number of rows of a result
MaxArrayRows == 2

\* the values of the fields of a row; 0 is the one that is falsy
Values == {0, 1, 2}

\* toArrayCallback: the value called back with, for a result of rows (each
\* row the sequence of the values of its keys) and a projection of n fields
ToArrayCallback(asArray, n, raw) ==
    IF asArray /\ n = 1
    THEN [i \in 1..Len(SelectSeq(raw, LAMBDA x : x[1] # 0)) |->
              SelectSeq(raw, LAMBDA x : x[1] # 0)[i][1]]
    ELSE raw

NoArray == [asArray |-> FALSE, fields |-> 0, rows |-> <<>>, result |-> <<>>]

NoAggregate == [route |-> "none", aggr |-> "", attr |-> <<>>, alias |-> <<>>]

BldInit ==
    /\ bArr = NoArray
    /\ bAgg = NoAggregate
    /\ bOrder = <<>>
    /\ bModel \in ModelNames
    /\ bq = [prepared |-> <<>>, where |-> {}]
    /\ bLast = [method |-> "none", text |-> NotAString, before |-> <<>>]
    /\ bCalls = 0

\* where(attr).equal(value): a new expression
WhereEqual ==
    /\ bCalls < MaxBuilderCalls
    /\ bLast.method # "toArray"
    /\ UNCHANGED nonBldVars
    /\ \E value \in 1..2 :
        bq' = [bq EXCEPT !.where = {[attr |-> "id", op |-> "equal", value |-> value]}]
    /\ bLast' = [method |-> "where", text |-> NotAString, before |-> bq.prepared]
    /\ bCalls' = bCalls + 1
    /\ bArr' = NoArray
    /\ bAgg' = NoAggregate
    /\ UNCHANGED <<bModel, bOrder>>

SearchCall ==
    /\ bCalls < MaxBuilderCalls
    /\ bLast.method # "toArray"
    /\ UNCHANGED nonBldVars
    /\ \E text \in SearchTexts \cup {NotAString} :
        /\ bq' = Search(bq, bModel, text)
        /\ bLast' = [method |-> "search", text |-> text, before |-> PrepareQuery(bq).prepared]
    /\ bCalls' = bCalls + 1
    /\ bArr' = NoArray
    /\ bAgg' = NoAggregate
    /\ UNCHANGED <<bModel, bOrder>>

\* a terminal operation, the last call on the Queryable, ends in
\* toArrayCallback
ToArrayCall ==
    /\ bCalls < MaxBuilderCalls
    /\ bLast.method # "toArray"
    /\ UNCHANGED nonBldVars
    /\ \E asArray \in BOOLEAN, n \in 1..2, len \in 0..MaxArrayRows :
        \E raw \in [1..len -> [1..n -> Values]] :
            bArr' = [asArray |-> asArray, fields |-> n, rows |-> raw,
                     result |-> ToArrayCallback(asArray, n, raw)]
    /\ bLast' = [method |-> "toArray", text |-> NotAString, before |-> bq.prepared]
    /\ bCalls' = bCalls + 1
    /\ bAgg' = NoAggregate
    /\ UNCHANGED <<bModel, bq, bOrder>>

\* the aggregate functions of the expressions given to select, alsoSelect,
\* orderBy and groupBy
AggregateFunctions == {"max", "count"}

\* the attributes of the Model that an aggregate is taken of: a field, or a
\* nested path that resolveNestedAttribute resolves
AggregateAttributes(m) ==
    { <<Schema[m][i].name>> : i \in {j \in 1..Len(Schema[m]) : ~Schema[m][j].many} }
    \cup { p \in Paths(m) : ResolvePath(m, p).ok }

\* attr.replace(/\//g, '_') on the path a/b/c
RECURSIVE ReplaceSlashes(_)
ReplaceSlashes(path) ==
    IF Len(path) <= 1 THEN path
    ELSE <<Head(path), "_">> \o ReplaceSlashes(Tail(path))

\* fieldOf: the alias of aggr(attr) when no alias is given
FieldOf(m, aggr, path) ==
    IF Len(path) > 1
    THEN <<aggr, "Of_">> \o ReplaceSlashes(path)
    ELSE <<aggr, "Of", path[1]>>

\* selectAggregatedAttribute: the alias that the aggregate is stored under,
\* which is that of selecteNestedAttribute, or that of fieldOf(attribute),
\* or the name of the field
SelectAggregatedAttribute(m, path) ==
    IF Len(path) > 1
    THEN ReplaceSlashes(path)
    ELSE LET field == CHOOSE f \in {Schema[m][i] : i \in 1..Len(Schema[m])} : f.name = path[1]
         IN  IF field.property # "" THEN <<field.property>> ELSE <<field.name>>

\* the alias of an aggregate on each route: select, orderBy and groupBy
\* call selectAggregatedAttribute for a nested path and fieldOf for a field,
\* alsoSelect calls fieldOf, max, min and average call
\* selectAggregatedAttribute
AggregateAlias(route, m, aggr, path) ==
    CASE route \in {"max", "min", "average"} -> SelectAggregatedAttribute(m, path)
      [] route = "alsoSelect" -> FieldOf(m, aggr, path)
      [] OTHER -> IF Len(path) > 1 THEN SelectAggregatedAttribute(m, path)
                  ELSE FieldOf(m, aggr, path)

\* select, alsoSelect, orderBy or groupBy of aggr(attr), or max, min or
\* average of attr
AggregateCall ==
    /\ bCalls < MaxBuilderCalls
    /\ bLast.method # "toArray"
    /\ UNCHANGED nonBldVars
    /\ \E route \in {"select", "alsoSelect", "orderBy", "groupBy", "max", "min", "average"},
          fn \in AggregateFunctions, path \in AggregateAttributes(bModel) :
        LET aggr == CASE route = "average" -> "avg"
                      [] route \in {"max", "min"} -> route
                      [] OTHER -> fn
        IN  bAgg' = [route |-> route, aggr |-> aggr, attr |-> path,
                     alias |-> AggregateAlias(route, bModel, aggr, path)]
    /\ bLast' = [method |-> "aggregate", text |-> NotAString, before |-> bq.prepared]
    /\ bCalls' = bCalls + 1
    /\ bArr' = NoArray
    /\ UNCHANGED <<bModel, bq, bOrder>>

\* the attributes given to orderBy and orderByDescending: the fields of the
\* Model that fieldOf finds
OrderAttributes(m) ==
    { Schema[m][i].name : i \in {j \in 1..Len(Schema[m]) : ~Schema[m][j].many} }

\* DataQueryable.prototype.orderBy and orderByDescending: the order
\* expression of the query is replaced by one attribute and its direction
QueryableOrderBy(order, attr) == << [attr |-> attr, direction |-> "asc"] >>

QueryableOrderByDescending(order, attr) == << [attr |-> attr, direction |-> "desc"] >>

\* DataModel.orderBy and DataModel.orderByDescending: a new DataQueryable of
\* the Model, and then result.orderBy(attr)
ModelOrderBy(attr) == QueryableOrderBy(<<>>, attr)

ModelOrderByDescending(attr) == QueryableOrderBy(<<>>, attr)

\* orderBy or orderByDescending, of the Model (the first call, which makes
\* the Queryable) or of the Queryable
OrderByCall ==
    /\ bCalls < MaxBuilderCalls
    /\ bLast.method # "toArray"
    /\ UNCHANGED nonBldVars
    /\ \E attr \in OrderAttributes(bModel),
          method \in {"orderBy", "orderByDescending",
                      "DataModel.orderBy", "DataModel.orderByDescending"} :
        /\ method \in {"DataModel.orderBy", "DataModel.orderByDescending"} => bCalls = 0
        /\ bOrder' = CASE method = "orderBy" -> QueryableOrderBy(bOrder, attr)
                        [] method = "orderByDescending" -> QueryableOrderByDescending(bOrder, attr)
                        [] method = "DataModel.orderBy" -> ModelOrderBy(attr)
                        [] OTHER -> ModelOrderByDescending(attr)
        /\ bLast' = [method |-> method, text |-> NotAString, before |-> bq.prepared]
    /\ bCalls' = bCalls + 1
    /\ bArr' = NoArray
    /\ bAgg' = NoAggregate
    /\ UNCHANGED <<bModel, bq>>

BldNext ==
    \/ WhereEqual
    \/ SearchCall
    \/ ToArrayCall
    \/ AggregateCall
    \/ OrderByCall

(***************************************************************************)
(* save() and remove().  Each item is an object of a Model with a field    *)
(* that is a tag collection (a junction of the parent side with no child   *)
(* model); the tags of the object of item i are stored in the adapter of   *)
(* the junction.                                                           *)
(***************************************************************************)
\* the largest number of items given to save() or remove()
MaxItems == 2

Tags == {"a", "b"}

\* the values of the field of an item: an array of tags, or no array
Childs ==
    { [array |-> FALSE, values |-> <<>>] }
    \cup { [array |-> TRUE, values |-> v] :
               v \in UNION { [1..len -> Tags] : len \in 0..2 } }

\* afterSave: the tags stored after toBeRemoved is removed and toBeInserted
\* is inserted
TagSyncMutant(stored, childs) ==
    stored \cup {childs.values[i] : i \in 1..Len(childs.values)}
TagSync(stored, childs) ==
    IF ~childs.array THEN stored
    ELSE (stored \ {x \in stored : \A i \in 1..Len(childs.values) : childs.values[i] # x})
         \cup {childs.values[i] : i \in {j \in 1..Len(childs.values) : childs.values[j] \notin stored}}

\* afterSave: the tags stored when the removal has succeeded and the
\* insertion has failed
TagsRemoved(stored, childs) ==
    IF ~childs.array THEN stored
    ELSE stored \ {x \in stored : \A i \in 1..Len(childs.values) : childs.values[i] # x}

\* async.eachSeries: the position after the callback of an item
AfterItemMutant(err) == "series"
AfterItem(err) == IF err THEN "end" ELSE "series"

NoRun == [op |-> "none", arr |-> <<>>, pc |-> "idle", started |-> 0, completed |-> 0,
          failed |-> 0, tx |-> "none", txCalls |-> 0, callbacks |-> 0, err |-> "none"]

TxInit ==
    /\ tRun = NoRun
    /\ tStored \in [1..MaxItems -> SUBSET Tags]
    /\ tBefore = tStored

\* save_ and remove_: self.migrate
SaveOrRemove ==
    /\ tRun.pc = "idle"
    /\ UNCHANGED nonTxVars
    /\ \E op \in {"save", "remove"}, n \in 1..MaxItems :
        \E arr \in [1..n -> Childs] :
            tRun' = [NoRun EXCEPT !.op = op, !.arr = arr, !.pc = "migrate"]
    /\ UNCHANGED <<tStored, tBefore>>

\* the callback of migrate: db.executeInTransaction
MigrateDone ==
    /\ tRun.pc = "migrate"
    /\ UNCHANGED nonTxVars
    /\ \E err \in BOOLEAN :
        IF err
        THEN /\ tRun' = [tRun EXCEPT !.pc = "done", !.callbacks = @ + 1, !.err = "migrate"]
             /\ UNCHANGED tBefore
        ELSE /\ tRun' = [tRun EXCEPT !.pc = "series", !.tx = "open", !.txCalls = @ + 1]
             /\ tBefore' = tStored
    /\ UNCHANGED tStored

\* the iterator of async.eachSeries: saveSingleObject_ or removeSingleObject_
ItemStart ==
    /\ tRun.pc = "series"
    /\ UNCHANGED nonTxVars
    /\ tRun.completed < Len(tRun.arr)
    /\ tRun' = [tRun EXCEPT !.pc = "item", !.started = @ + 1]
    /\ UNCHANGED <<tStored, tBefore>>

\* the callback of saveSingleObject_ or removeSingleObject_; the after.save
\* listener of a saved item has synchronized its tags
ItemDone ==
    /\ tRun.pc = "item"
    /\ UNCHANGED nonTxVars
    /\ \E outcome \in {"ok", "error", "insertError"} :
        /\ tRun' = [tRun EXCEPT !.pc = AfterItem(outcome # "ok"),
                                !.completed = IF outcome = "ok" THEN @ + 1 ELSE @,
                                !.failed = IF outcome = "ok" THEN @ ELSE tRun.started]
        /\ tStored' =
              CASE outcome = "error" -> tStored
                [] tRun.op = "remove" ->
                      [tStored EXCEPT ![tRun.started] = {}]
                [] outcome = "insertError" ->
                      [tStored EXCEPT ![tRun.started] =
                           TagsRemoved(tStored[tRun.started], tRun.arr[tRun.started])]
                [] OTHER ->
                      [tStored EXCEPT ![tRun.started] =
                           TagSync(tStored[tRun.started], tRun.arr[tRun.started])]
    /\ UNCHANGED tBefore

\* the final callback of async.eachSeries: cb(err) or cb(null)
SeriesEnd ==
    /\ tRun.pc = "series"
    /\ UNCHANGED nonTxVars
    /\ tRun.completed = Len(tRun.arr)
    /\ tRun' = [tRun EXCEPT !.pc = "end"]
    /\ UNCHANGED <<tStored, tBefore>>

\* the callback of db.executeInTransaction: the transaction is committed, or
\* rolled back with the error of the series
TransactionEnd ==
    /\ tRun.pc = "end"
    /\ UNCHANGED nonTxVars
    /\ IF tRun.failed # 0
       THEN /\ tRun' = [tRun EXCEPT !.pc = "done", !.tx = "rolledBack",
                                   !.callbacks = @ + 1, !.err = "item"]
            /\ tStored' = tBefore
       ELSE /\ tRun' = [tRun EXCEPT !.pc = "done", !.tx = "committed",
                                   !.callbacks = @ + 1]
            /\ UNCHANGED tStored
    /\ UNCHANGED tBefore

TxNext ==
    \/ SaveOrRemove
    \/ MigrateDone
    \/ ItemStart
    \/ ItemDone
    \/ SeriesEnd
    \/ TransactionEnd

(***************************************************************************)
(* A Model and its objects.  The Model Order inherits the Model Thing; its *)
(* fields customer, seller and owner are foreign keys to Person (each the  *)
(* child side of an association whose parent field is id).                 *)
(***************************************************************************)
\* the largest number of fields pushed to DataModel.fields
MaxFieldChanges == 2

\* the attributes of the base Model that are no primary key
BaseAttributes == << [name |-> "owner", model |-> "Thing", readonly |-> FALSE] >>

\* the fields the Model is constructed with, and those pushed to it later
OwnFields ==
    << [name |-> "customer", model |-> "", readonly |-> FALSE],
       [name |-> "seller",   model |-> "", readonly |-> TRUE] >>

NewFields ==
    { [name |-> "price", model |-> "", readonly |-> FALSE],
      [name |-> "owner", model |-> "", readonly |-> FALSE] }

ForeignKeys == {"customer", "seller", "owner"}

\* the attributes getter: a field is given the name of the Model, or the
\* model of the field of the base Model that it overrides; the attributes of
\* the base Model that no field overrides follow
OwnAttribute(x, base) ==
    IF Len(base) > 0
    THEN [x EXCEPT !.model = base[1].model]
    ELSE [x EXCEPT !.model = IF x.model = "" THEN "Order" ELSE x.model]

ComputeAttributes(fields) ==
    [i \in 1..Len(fields) |->
         OwnAttribute(fields[i], SelectSeq(BaseAttributes, LAMBDA b : b.name = fields[i].name))]
    \o SelectSeq(BaseAttributes,
                 LAMBDA b : \A i \in 1..Len(fields) : fields[i].name # b.name)

\* the attributes getter: the cached list is returned when there is one
GetAttributes(cached, fields) ==
    IF cached.set THEN cached.list ELSE ComputeAttributes(fields)

\* the values of a property of an object: none, a scalar, or an object with
\* the key of the associated object
Cells ==
    { [kind |-> "absent", key |-> 0] }
    \cup [kind : {"scalar", "object"}, key : 1..2]

\* DataModel.convert: the properties of the row are assigned to a new
\* DataObject, which is given $$type
Convert(row) ==
    [n \in DOMAIN row \cup {"$$type"} |->
         IF n = "$$type" THEN [kind |-> "type", key |-> 0] ELSE row[n]]

\* cast_: the attributes that are cast (state 1; no attribute has a
\* calculation or a value)
CastAttributes(attributes) ==
    SelectSeq(attributes, LAMBDA x : x.model = "Order" /\ ~x.readonly)

\* cast_: the value of a foreign key
CastValueMutant(cell) == cell
CastValue(cell) ==
    IF cell.kind = "object" THEN [kind |-> "scalar", key |-> cell.key] ELSE cell

\* cast_
Cast(obj, attributes) ==
    [n \in {CastAttributes(attributes)[i].name : i \in 1..Len(CastAttributes(attributes))}
           \cap {k \in DOMAIN obj : obj[k].kind # "absent"} |->
         IF n \in ForeignKeys THEN CastValue(obj[n]) ELSE obj[n]]

MdlInit ==
    /\ mFields = OwnFields
    /\ mCache = [set |-> FALSE, list |-> <<>>]
    /\ mLast = [op |-> "none", row |-> <<>>, value |-> <<>>]

\* a field is added to DataModel.fields
PushField ==
    /\ Len(mFields) < Len(OwnFields) + MaxFieldChanges
    /\ UNCHANGED nonMdlVars
    /\ \E f \in NewFields :
        /\ \A i \in 1..Len(mFields) : mFields[i].name # f.name
        /\ mFields' = Append(mFields, f)
    /\ mLast' = [op |-> "push", row |-> <<>>, value |-> <<>>]
    /\ UNCHANGED mCache

\* cacheMapping_: an attribute that is no field of the Model is added to the
\* fields, and the attributes are cleared
CacheMapping ==
    /\ Len(mFields) < Len(OwnFields) + MaxFieldChanges
    /\ UNCHANGED nonMdlVars
    /\ \E i \in 1..Len(GetAttributes(mCache, mFields)) :
        /\ \A j \in 1..Len(mFields) :
               mFields[j].name # GetAttributes(mCache, mFields)[i].name
        /\ mFields' = Append(mFields, GetAttributes(mCache, mFields)[i])
    /\ mCache' = [set |-> FALSE, list |-> <<>>]
    /\ mLast' = [op |-> "cacheMapping", row |-> <<>>, value |-> <<>>]

\* a read of DataModel.attributes
ReadAttributes ==
    /\ UNCHANGED nonMdlVars
    /\ mCache' = [set |-> TRUE, list |-> GetAttributes(mCache, mFields)]
    /\ mLast' = [op |-> "attributes", row |-> <<>>,
                 value |-> GetAttributes(mCache, mFields)]
    /\ UNCHANGED mFields

\* model.cast(model.convert(row))
CastConvert ==
    /\ UNCHANGED nonMdlVars
    /\ \E row \in [ForeignKeys -> Cells] :
        mLast' = [op |-> "cast", row |-> row,
                  value |-> Cast(Convert(row), GetAttributes(mCache, mFields))]
    /\ mCache' = [set |-> TRUE, list |-> GetAttributes(mCache, mFields)]
    /\ UNCHANGED mFields

MdlNext ==
    \/ PushField
    \/ CacheMapping
    \/ ReadAttributes
    \/ CastConvert

(***************************************************************************)
(* Terminal operations of one context on one Model that has no base Model. *)
(* Each calls DataModel.migrate; the callbacks of one operation run        *)
(* between those of another.                                               *)
(***************************************************************************)
\* the largest number of operations that overlap
MaxOperations == 3

OvlInit ==
    /\ oModel \in [version : Versions, sealed : BOOLEAN]
    /\ oCache = "undefined"
    /\ oPc = [i \in 1..MaxOperations |-> "idle"]
    /\ oMigrates = 0

\* DataQueryable.prototype.migrate: DataModel.migrate up to
\* db.executeInTransaction
OperationMigrate ==
    /\ UNCHANGED nonOvlVars
    /\ \E i \in 1..MaxOperations :
        /\ oPc[i] = "idle"
        /\ oPc' = [oPc EXCEPT ![i] =
                      IF MigrationCached(oCache, oModel.version) \/ oModel.sealed
                      THEN "notMigrated" ELSE "transaction"]
    /\ UNCHANGED <<oModel, oCache, oMigrates>>

\* DataModel.migrate: the transaction of an operation, up to the call of
\* db.migrate that follows the before.upgrade listeners
OperationTransaction ==
    /\ UNCHANGED nonOvlVars
    /\ \E i \in 1..MaxOperations, err \in BOOLEAN :
        /\ oPc[i] = "transaction"
        /\ oPc' = [oPc EXCEPT ![i] = IF err THEN "beforeUpgradeErr" ELSE "dbMigrate"]
        /\ oMigrates' = IF err THEN oMigrates ELSE oMigrates + 1
    /\ UNCHANGED <<oModel, oCache>>

\* DataModel.migrate: the callback of db.migrate, the after.upgrade
\* listeners, and the callback of the transaction
OperationMigrated ==
    /\ UNCHANGED nonOvlVars
    /\ \E i \in 1..MaxOperations,
          outcome \in {o \in TransactionOutcomes \ {"baseErr"} : TransactionCallsMigrate(o)} :
        /\ oPc[i] = "dbMigrate"
        /\ oPc' = [oPc EXCEPT ![i] = outcome]
        /\ oCache' = CacheAfterTransaction(oCache, oModel.version, TransactionError(outcome))
    /\ UNCHANGED <<oModel, oMigrates>>

OvlNext ==
    \/ OperationMigrate
    \/ OperationTransaction
    \/ OperationMigrated

(***************************************************************************)
(* saveSingleObject_ and removeSingleObject_ on one Model, one object after *)
(* the other.  The save or removal of the object of the base Model is one  *)
(* step, which writes or deletes the row of the base Model or fails.       *)
(***************************************************************************)
\* the largest number of objects saved or removed
MaxObjects == 2

\* the listeners that saveSingleObject_ and removeSingleObject_ register with
\* once, by event, in the order they are registered
OnceListeners(op) ==
    IF op = "save"
    THEN [before |-> <<"nested.beforeSave", "association.beforeSave", "unique",
                       "validator", "notNull">>,
          after  |-> <<"association.afterSave">>]
    ELSE [before |-> <<"nested.beforeRemove", "association.afterSave">>, after |-> <<>>]

\* SequentialEventEmitter.emit: the listeners run in series in the order
\* they were registered, the listeners registered with on first; the first
\* error ends the series.  A listener registered with once is removed when
\* it is called.  k is the number of the listeners of the list that are
\* called
Emit(list, k) ==
    [ran |-> SubSeq(list, 1, k), left |-> SubSeq(list, k + 1, Len(list))]

\* how an object is saved: the state of the object, and what the adapter
\* offers for a primary key that is a Counter
SaveKinds ==
    {"insertNextIdentity", "insertLastIdentity", "insertNeither", "insertNoCounter",
     "update", "updateEmpty"}

\* saveSingleObject_: the number of times the callback given to lastIdentity
\* is called after db.execute has called back with result
LastCallbacks(kind, resultIsNil) ==
    IF kind = "insertNeither" /\ resultIsNil THEN 2 ELSE 1

\* saveSingleObject_ after saveBaseObject_, removeSingleObject_ after
\* db.execute: "if (err) { callback(err); return; }"
AfterFirstRowMutant(err, next) == next
AfterFirstRow(err, next) == IF err THEN "done" ELSE next

NoObject == [op |-> "none", kind |-> "none", hasBase |-> FALSE, pc |-> "done",
             ran |-> <<>>, rows |-> <<>>, times |-> 0, emits |-> 0, callbacks |-> 0,
             err |-> "none"]

ObjInit ==
    /\ jOnce = [beforeSave |-> <<>>, afterSave |-> <<>>, beforeRemove |-> <<>>]
    /\ jRun = NoObject
    /\ jOps = 0

\* saveSingleObject_ and removeSingleObject_ up to the emit of before.save or
\* before.remove
SingleObject ==
    /\ jRun.pc = "done"
    /\ jOps < MaxObjects
    /\ UNCHANGED nonObjVars
    /\ jOps' = jOps + 1
    /\ \E hasBase \in BOOLEAN, kind \in SaveKinds \cup {"remove"} :
        IF kind = "remove"
        THEN /\ jRun' = [NoObject EXCEPT !.op = "remove", !.kind = kind,
                                         !.hasBase = hasBase, !.pc = "before"]
             /\ jOnce' = [jOnce EXCEPT
                             !.beforeRemove = @ \o OnceListeners("remove").before]
        ELSE /\ jRun' = [NoObject EXCEPT !.op = "save", !.kind = kind,
                                         !.hasBase = hasBase, !.pc = "before"]
             /\ jOnce' = [jOnce EXCEPT
                             !.beforeSave = @ \o OnceListeners("save").before,
                             !.afterSave = @ \o OnceListeners("save").after]

\* the emit of before.save or before.remove and its callback
BeforeEmit ==
    /\ jRun.pc = "before"
    /\ UNCHANGED nonObjVars
    /\ LET list == IF jRun.op = "save" THEN jOnce.beforeSave ELSE jOnce.beforeRemove
       IN  \E err \in BOOLEAN, k \in 0..Len(list) :
             /\ ~err => k = Len(list)
             /\ jOnce' = IF jRun.op = "save"
                         THEN [jOnce EXCEPT !.beforeSave = Emit(list, k).left]
                         ELSE [jOnce EXCEPT !.beforeRemove = Emit(list, k).left]
             /\ jRun' = IF err
                        THEN [jRun EXCEPT !.ran = Emit(list, k).ran, !.pc = "done",
                                          !.callbacks = @ + 1, !.err = "before"]
                        ELSE [jRun EXCEPT !.ran = Emit(list, k).ran,
                                          !.pc = IF jRun.op = "save" THEN "base" ELSE "delete"]
    /\ UNCHANGED jOps

\* saveBaseObject_ and its callback
SaveBaseObject ==
    /\ jRun.pc = "base"
    /\ UNCHANGED nonObjVars
    /\ \E err \in BOOLEAN :
        /\ err => jRun.hasBase
        /\ jRun' = [jRun EXCEPT
                       !.pc = AfterFirstRow(err, "execute"),
                       !.rows = IF jRun.hasBase /\ ~err THEN Append(@, "base") ELSE @,
                       !.callbacks = IF err THEN @ + 1 ELSE @,
                       !.err = IF err THEN "base" ELSE @]
    /\ UNCHANGED <<jOnce, jOps>>

\* saveSingleObject_ from the query to recast: nextIdentity, db.execute and
\* recast call back with an error or go on; an update with nothing to write
\* executes nothing
SaveExecute ==
    /\ jRun.pc = "execute"
    /\ UNCHANGED nonObjVars
    /\ \E outcome \in {"ok", "identityErr", "executeErr", "recastErr"},
          resultIsNil \in BOOLEAN :
        /\ jRun.kind = "updateEmpty" => outcome \in {"ok", "recastErr"}
        /\ jRun' = [jRun EXCEPT
                       !.pc = IF outcome = "ok" THEN "after" ELSE "done",
                       !.rows = IF jRun.kind # "updateEmpty"
                                   /\ outcome \in {"ok", "recastErr"}
                                THEN Append(@, "derived") ELSE @,
                       !.times = IF outcome = "ok"
                                 THEN LastCallbacks(jRun.kind, resultIsNil) ELSE 0,
                       !.callbacks = IF outcome = "ok" THEN @ ELSE @ + 1,
                       !.err = IF outcome = "ok" THEN @ ELSE outcome]
    /\ UNCHANGED <<jOnce, jOps>>

\* removeSingleObject_: db.execute of the delete query and its callback
RemoveExecute ==
    /\ jRun.pc = "delete"
    /\ UNCHANGED nonObjVars
    /\ \E err \in BOOLEAN :
        jRun' = [jRun EXCEPT
                    !.pc = AfterFirstRow(err, "removeBase"),
                    !.rows = IF err THEN @ ELSE Append(@, "derived"),
                    !.callbacks = IF err THEN @ + 1 ELSE @,
                    !.err = IF err THEN "execute" ELSE @]
    /\ UNCHANGED <<jOnce, jOps>>

\* removeBaseObject_ and its callback
RemoveBaseObject ==
    /\ jRun.pc = "removeBase"
    /\ UNCHANGED nonObjVars
    /\ \E err \in BOOLEAN :
        /\ err => jRun.hasBase
        /\ jRun' = [jRun EXCEPT
                       !.pc = IF err THEN "done" ELSE "after",
                       !.rows = IF jRun.hasBase /\ ~err THEN Append(@, "base") ELSE @,
                       !.times = IF err THEN 0 ELSE 1,
                       !.callbacks = IF err THEN @ + 1 ELSE @,
                       !.err = IF err THEN "base" ELSE @]
    /\ UNCHANGED <<jOnce, jOps>>

\* the emit of after.save or after.remove and its callback, which calls the
\* callback of the object; once for each call of the callback of
\* lastIdentity
AfterEmit ==
    /\ jRun.pc = "after"
    /\ UNCHANGED nonObjVars
    /\ LET list == IF jRun.op = "save" THEN jOnce.afterSave ELSE <<>>
       IN  \E err \in BOOLEAN, k \in 0..Len(list) :
             /\ ~err => k = Len(list)
             /\ jOnce' = IF jRun.op = "save"
                         THEN [jOnce EXCEPT !.afterSave = Emit(list, k).left]
                         ELSE jOnce
             /\ jRun' = [jRun EXCEPT
                            !.ran = @ \o Emit(list, k).ran,
                            !.emits = @ + 1,
                            !.callbacks = @ + 1,
                            !.times = @ - 1,
                            !.pc = IF jRun.times = 1 THEN "done" ELSE "after",
                            !.err = IF err THEN "after" ELSE @]
    /\ UNCHANGED jOps

ObjNext ==
    \/ SingleObject
    \/ BeforeEmit
    \/ SaveBaseObject
    \/ SaveExecute
    \/ RemoveExecute
    \/ RemoveBaseObject
    \/ AfterEmit

(***************************************************************************)
(* The specifications.                                                     *)
(***************************************************************************)
PipeIdle ==
    /\ model = [version |-> "0.1", sealed |-> FALSE, hasBase |-> FALSE,
                nBefore |-> 0, nAfter |-> 0]
    /\ cache = [m \in {"M", "B"} |-> "undefined"]
    /\ pc = "idle"
    /\ runs = 0
    /\ qHasExpand = FALSE
    /\ qExpandLen = 0
    /\ qView = FALSE
    /\ expandIdx = 0
    /\ curKind = "none"
    /\ beforeDone = 0
    /\ afterDone = 0
    /\ eResult = "undefined"
    /\ result = "none"
    /\ hookSetResult = FALSE
    /\ execCalls = 0
    /\ execReturned = FALSE
    /\ fetchCalls = 0
    /\ trCalls = 0
    /\ migrateOk = {}
    /\ failed = "none"
    /\ callbacks = 0
    /\ deliveredErr = "none"
    /\ deliveredResult = "none"

ResIdle ==
    /\ rModel = "Order"
    /\ rExpand = [shape |-> "undefined", joins |-> <<>>]
    /\ rLast = NoCall
    /\ rCalls = 0
    /\ rClone = NotCloned

ListIdle ==
    /\ rows = 0
    /\ query = [skip |-> Undefined, take |-> Undefined, expand |-> 0]
    /\ q1 = [skip |-> Undefined, take |-> Undefined, expand |-> 0]
    /\ lpc = "build"
    /\ given = [skip |-> Undefined, take |-> Undefined, expand |-> 0]
    /\ res = NoResult

FlagsIdle == FlagsInit

SelIdle ==
    /\ sModel = [expandable |-> FALSE, groups |-> FALSE, assoc |-> {}, bare |-> "no", hidden |-> FALSE]
    /\ sLevels = Undefined
    /\ sq = [select |-> [set |-> FALSE, fields |-> {}], expand |-> {}, endless |-> FALSE]
    /\ sCalls = <<>>
    /\ sLast = NoArg
    /\ sJoins = <<>>
    /\ sErr = "none"
    /\ sRan = FALSE

BldIdle ==
    /\ bArr = NoArray
    /\ bAgg = NoAggregate
    /\ bOrder = <<>>
    /\ bModel = "Order"
    /\ bq = [prepared |-> <<>>, where |-> {}]
    /\ bLast = [method |-> "none", text |-> NotAString, before |-> <<>>]
    /\ bCalls = 0

TxIdle ==
    /\ tRun = NoRun
    /\ tStored = [i \in 1..MaxItems |-> {}]
    /\ tBefore = tStored

MdlIdle == MdlInit

ObjIdle == ObjInit

OvlIdle ==
    /\ oModel = [version |-> "0.1", sealed |-> FALSE]
    /\ oCache = "undefined"
    /\ oPc = [i \in 1..MaxOperations |-> "idle"]
    /\ oMigrates = 0

NestIdle ==
    /\ nSchema = {}
    /\ nModel = "Order"
    /\ nLevels = Undefined
    /\ nTop = Undefined
    /\ nCaller = 0
    /\ nDepth = 0
    /\ npc = "run"

\* terminal operations run one after the other on one Model
Init == PipeInit /\ ResIdle /\ ListIdle /\ FlagsIdle /\ NestIdle /\ SelIdle /\ BldIdle /\ TxIdle
    /\ MdlIdle /\ OvlIdle /\ ObjIdle

Next == PipeNext

Spec == Init /\ [][Next]_vars

\* builder calls with nested paths on one Queryable
InitResolve == ResInit /\ PipeIdle /\ ListIdle /\ FlagsIdle /\ NestIdle /\ SelIdle /\ BldIdle /\ TxIdle
    /\ MdlIdle /\ OvlIdle /\ ObjIdle

SpecResolve == InitResolve /\ [][ResNext]_vars

\* builder calls for paging and then list() on one Queryable
InitList == ListInit /\ PipeIdle /\ ResIdle /\ FlagsIdle /\ NestIdle /\ SelIdle /\ BldIdle /\ TxIdle
    /\ MdlIdle /\ OvlIdle /\ ObjIdle

SpecList == InitList /\ [][ListNext]_vars

\* builder calls for the expansion flags and then a terminal operation
InitFlags == FlagsInit /\ PipeIdle /\ ResIdle /\ ListIdle /\ NestIdle /\ SelIdle /\ BldIdle /\ TxIdle
    /\ MdlIdle /\ OvlIdle /\ ObjIdle

SpecFlags == InitFlags /\ [][FlagsNext]_vars

\* a terminal operation and the nested Queryables of its expansion
InitNest == NestInit /\ PipeIdle /\ ResIdle /\ ListIdle /\ FlagsIdle /\ SelIdle /\ BldIdle /\ TxIdle
    /\ MdlIdle /\ OvlIdle /\ ObjIdle

SpecNest == InitNest /\ [][NestNext]_vars

\* select() calls and then a terminal operation on one Queryable
InitSelect == SelInit /\ PipeIdle /\ ResIdle /\ ListIdle /\ FlagsIdle /\ NestIdle /\ BldIdle /\ TxIdle
    /\ MdlIdle /\ OvlIdle /\ ObjIdle

SpecSelect == InitSelect /\ [][SelNext]_vars

\* where() and search() calls on one Queryable
InitBuilder ==
    BldInit /\ PipeIdle /\ ResIdle /\ ListIdle /\ FlagsIdle /\ NestIdle /\ SelIdle /\ TxIdle
    /\ MdlIdle /\ OvlIdle /\ ObjIdle

SpecBuilder == InitBuilder /\ [][BldNext]_vars

\* one save() or remove() of several items
InitSave ==
    TxInit /\ PipeIdle /\ ResIdle /\ ListIdle /\ FlagsIdle /\ NestIdle /\ SelIdle /\ BldIdle
    /\ MdlIdle /\ OvlIdle /\ ObjIdle

SpecSave == InitSave /\ [][TxNext]_vars

\* the fields and attributes of one Model, and casts of its objects
InitModel ==
    MdlInit /\ PipeIdle /\ ResIdle /\ ListIdle /\ FlagsIdle /\ NestIdle /\ SelIdle /\ BldIdle
    /\ TxIdle /\ OvlIdle /\ ObjIdle

SpecModel == InitModel /\ [][MdlNext]_vars

(***************************************************************************)
(* The claims about the execution pipeline.                                *)
(***************************************************************************)
AfterHooksStarted == pc = "after" \/ afterDone > 0

ExpansionStarted == pc \in {"expand", "fetch", "stalled"} \/ fetchCalls > 0 \/ expandIdx > 0

ExpansionComplete == (~qHasExpand) \/ (pc \notin {"fetch", "stalled"} /\ expandIdx = qExpandLen)

\* C1: within one terminal operation every before.execute listener has
\* completed when the adapter's execute is called, and the adapter has called
\* back when the first after.execute listener starts.
C1_HooksAroundExecute ==
    /\ (execCalls > 0) => (beforeDone = model.nBefore)
    /\ (AfterHooksStarted /\ execCalls > 0) => execReturned

C1_Witness ==
    /\ pc = "after"
    /\ model.nBefore > 0
    /\ beforeDone = model.nBefore
    /\ execCalls = 1
    /\ execReturned

C3_HookResultShortCircuits ==
    hookSetResult =>
        /\ execCalls = 0
        /\ (callbacks > 0 /\ deliveredErr = "none") => deliveredResult = "hook"

C3_Witness ==
    /\ hookSetResult
    /\ pc = "done"
    /\ callbacks = 1
    /\ deliveredResult = "hook"
    /\ execCalls = 0

stepCounters == <<beforeDone, afterDone, execCalls, execReturned, fetchCalls,
                  expandIdx, trCalls, callbacks>>

\* C4: when a step of the operation reports an error, the caller receives
\* exactly that error, no later step of the operation runs and no step is
\* run twice.
C4_ErrorShortCircuits ==
    /\ []((failed # "none") =>
            (pc = "done" /\ callbacks = 1 /\ deliveredErr = failed))
    /\ [](execCalls <= 1 /\ trCalls <= runs /\ fetchCalls <= qExpandLen
            /\ beforeDone <= model.nBefore /\ afterDone <= model.nAfter)
    /\ [][(failed # "none" /\ runs' = runs) => UNCHANGED stepCounters]_vars

C4_Witness ==
    /\ pc = "done"
    /\ failed = "execute"
    /\ deliveredErr = "execute"
    /\ callbacks = 1
    /\ afterDone = 0
    /\ model.nAfter > 0

\* C5 (as claimed): every terminal operation completes: as long as its
\* callback has not been invoked a step of the operation is pending, and the
\* callback is invoked once.
C5_OperationCompletes ==
    (pc # "idle") =>
        \/ (pc = "done" /\ callbacks = 1)
        \/ (pc # "done" /\ callbacks = 0 /\ ENABLED PipeStep)

\* C6: once the cache holds the Model's version no operation calls the
\* adapter's migrate for the Model, and the cache holds a version only after
\* a transaction of migrate has succeeded.
C6_MigrationOnce ==
    /\ [][LooseEq(cache["M"], model.version) => trCalls' = trCalls]_vars
    /\ []((cache["M"] # "undefined") => ("M" \in migrateOk))

C6_Witness ==
    /\ runs = 2
    /\ pc = "prepare"
    /\ cache["M"] = "0.1"
    /\ model.version = "0.1"
    /\ trCalls = 1

\* C15: an expand entry whose mapping cannot be resolved (no field, or a
\* field without a mapping) is skipped: the operation does not fail on it.
C15_UnresolvedEntrySkipped ==
    (curKind \in {"noField", "noMapping"}) => (failed # "expand")

\* C16: the entries of the expand list are fetched in series: a fetch begins
\* only when the fetches of all the entries before it have completed, and
\* after an entry has failed no further fetch begins.
C16_ExpansionInSeries ==
    /\ [](fetchCalls <= expandIdx + 1)
    /\ [][(failed = "expand" /\ runs' = runs) => (fetchCalls' = fetchCalls)]_vars

C16_Witness ==
    /\ pc = "fetch"
    /\ fetchCalls = 2
    /\ expandIdx = 1

\* C17: when an after.execute hook replaces the event's result with a
\* transformed value, the caller is given the transformed value.
C17_TransformedResultDelivered ==
    (pc = "done" /\ callbacks = 1 /\ deliveredErr = "none" /\ eResult = "transformed")
    => (deliveredResult = "transformed")

(***************************************************************************)
(* The claims about the attribute resolver.                                *)
(***************************************************************************)
\* C7: after any sequence of where/and/or/orderBy/groupBy/select calls with
\* nested paths, no two joins of the query's join list have the same alias.
C7_NoDuplicateAlias ==
    \A i, j \in 1..Len(rExpand.joins) :
        (i # j) => (rExpand.joins[i].as # rExpand.joins[j].as)

\* C8: a path of two segments that crosses one association mapping, with the
\* Model on the child side or on the parent side, resolves to exactly one
\* join, whose alias is the first segment of the path.
C8_OneJoinAliasedByFirstSegment ==
    ( /\ rLast.status = "ok"
      /\ Len(rLast.path) = 2
      /\ InferMapping(rModel, rLast.path[1]).associationType = "association" )
    => ( /\ Len(rLast.joins) = 1
         /\ rLast.joins[1].as = rLast.path[1] )

(***************************************************************************)
(* The claims about paging.                                                *)
(***************************************************************************)
\* C9: for every n, take(n).list() returns a result set with at most n
\* records and with a total that is at least the number of records.
C9_TakeBoundsRecords ==
    (res.status = "ok" /\ given.take.set)
    => (res.records <= given.take.n /\ res.total >= res.records)

\* C10: the total of the result set of list() is the number of all the rows
\* that match the filter, whatever skip and take were set before list().
C10_TotalIgnoresPaging ==
    (res.status = "ok") => (res.total = rows)

C10_Witness ==
    /\ res.status = "ok"
    /\ given.skip.set /\ given.skip.n > 0
    /\ given.take.set /\ given.take.n > 0
    /\ rows > given.skip.n + given.take.n
    /\ res.records = given.take.n
    /\ res.total = rows

(***************************************************************************)
(* The claims about the expansion flags.                                   *)
(***************************************************************************)
\* C11: for every n < 1, levels(n) leaves the Queryable as flatten(true)
\* does: the same expand list, levels and flatten flag, and the same (no)
\* association expansion by a following terminal operation.
C11_LowLevelsIsFlatten ==
    \A n \in -1..0 :
        /\ Levels(fq, Num(n)) = Flatten(fq, "true")
        /\ Expanded(Levels(fq, Num(n))) = Expanded(Flatten(fq, "true"))

\* C12: a terminal operation on a Queryable whose flatten flag is set
\* performs no association expansion.
C12_FlattenSuppressesExpansion ==
    (fRun.done /\ fq.flatten = "true") => (fRun.expanded = {})

\* C13: after flatten(true), a call of levels() leaves the levels at 0.
C13_LevelsCallReportsZero ==
    (fLast.method = "levels" /\ ~fLast.value.set
        /\ fLast.before.flatten = "true" /\ GetLevels(fLast.before) = 0)
    => (GetLevels(fq) = 0)

\* C13, as the code has it: once flatten(true) has set the levels to 0,
\* getLevels() is 0 after every builder call but levels(), with which the
\* levels are set again: without an argument it sets them to 1 and clears
\* the flatten flag.
C13_LevelsZeroUntilLevelsCall ==
    /\ (fLast.method = "flatten" /\ fq.flatten = "true") => (GetLevels(fq) = 0)
    /\ (fLast.method \in {"expand", "flatten"} /\ GetLevels(fLast.before) = 0)
       => (GetLevels(fq) = 0)
    /\ (fLast.method = "levels" /\ ~fLast.value.set)
       => (GetLevels(fq) = 1 /\ fq.flatten = "false")

C13_Witness ==
    /\ fLast.method = "levels" /\ ~fLast.value.set
    /\ fLast.before.flatten = "true" /\ GetLevels(fLast.before) = 0
    /\ GetLevels(fq) = 1

(***************************************************************************)
(* The claims about recursive expansion.                                   *)
(***************************************************************************)
\* C14: every nested expansion query runs with $levels equal to the levels
\* of its caller minus 1, and the depth of the expansion never exceeds the
\* levels of the top-level Queryable.
C14_ExpansionDepthBounded ==
    /\ (nDepth > 0) => (nLevels = Num(nCaller - 1))
    /\ nDepth <= (IF GetLevels(WithLevels(nTop)) > 0
                   THEN GetLevels(WithLevels(nTop)) ELSE 0)

(***************************************************************************)
(* The claims about the projection.                                        *)
(***************************************************************************)
\* C18: after any select call, no many field and no junction is in the flat
\* projection, however it was named in the call; each one that was named is
\* in the expand list.
C18_ManyFieldsNotProjected ==
    (Len(sCalls) > 0 /\ sLast.kind # "join") =>
        \A f \in SelectFields(sModel) :
            IsMany(f) =>
                /\ f.name \notin sq.select.fields
                /\ (\E x \in sLast.items : x.name = f.name)
                   => f.name \in sq.expand

C20_JoinNeedsOneAssociation ==
    (sLast.kind = "join" /\ sLast.items = {[name |-> "Person", aliased |-> FALSE]})
    => /\ (Cardinality(sModel.assoc) # 1) => (sErr # "none" /\ sJoins = <<>>)
       /\ (Cardinality(sModel.assoc) = 1) => (sErr = "none" /\ Len(sJoins) > 0)

(***************************************************************************)
(* The claims about errors, search, arrays, clones and caches.             *)
(***************************************************************************)
\* C21: the error of a failed resolution of a nested path identifies the
\* offending attribute and the Model: the same path that fails on another
\* Model never gives the same error there.
C21_ErrorIdentifiesModel ==
    (rLast.status = "error" /\ rLast.channel = "thrown") =>
        /\ rLast.error # ""
        /\ \A m \in ModelNames \ {rModel} :
               ResolvePath(m, rLast.path).ok \/ ResolvePath(m, rLast.path).error # rLast.error

C23_AsArrayMapsEveryRow ==
    (bLast.method = "toArray" /\ bArr.asArray) =>
        IF bArr.fields = 1
        THEN /\ Len(bArr.result) = Len(bArr.rows)
             /\ \A i \in 1..Len(bArr.rows) : bArr.result[i] = bArr.rows[i][1]
        ELSE bArr.result = bArr.rows

\* C24: save and remove of several items run the items in series inside one
\* transaction: an item starts only after the one before it has completed,
\* and the first failing item ends the transaction with its error, without
\* any later item being processed.
C24_ItemsInSeriesInOneTransaction ==
    /\ tRun.txCalls <= 1
    /\ tRun.started <= tRun.completed + 1
    /\ (tRun.pc \in {"series", "item", "end"}) => (tRun.tx = "open")
    /\ (tRun.failed # 0) => (tRun.started = tRun.failed /\ tRun.pc \in {"end", "done"})
    /\ (tRun.pc = "done" /\ tRun.failed # 0)
       => (tRun.err = "item" /\ tRun.tx = "rolledBack" /\ tRun.callbacks = 1)

C24_Witness ==
    /\ tRun.pc = "done"
    /\ Len(tRun.arr) = 2
    /\ tRun.failed = 1
    /\ tRun.started = 1
    /\ tRun.tx = "rolledBack"

\* C25: after a save of an object whose tag field holds the array S, the tags
\* stored for the object are the set of the values of S, whatever tags were
\* stored before.
C25_StoredTagsEqualSaved ==
    (tRun.op = "save" /\ tRun.pc = "done" /\ tRun.err = "none") =>
        \A i \in 1..Len(tRun.arr) :
            tRun.arr[i].array =>
                tStored[i] = {tRun.arr[i].values[j] : j \in 1..Len(tRun.arr[i].values)}

C25_Witness ==
    /\ tRun.op = "save" /\ tRun.pc = "done" /\ tRun.err = "none"
    /\ tRun.arr[1] = [array |-> TRUE, values |-> <<"a">>]
    /\ tBefore[1] = {"b"}
    /\ tStored[1] = {"a"}

C29_AttributesFollowFields ==
    (mLast.op = "attributes") => (mLast.value = ComputeAttributes(mFields))

\* C27: every error that arises in a terminal operation reaches the caller
\* through the first argument of the callback when a callback is given, and
\* through a rejected promise when it is not.
C27_ErrorsThroughCallbackOrPromise ==
    (rLast.method = "max" /\ rLast.status = "error")
    => (rLast.channel \in {"callback", "promise"})

\* C28: clone() does not alias the expression tree: a change of the filter,
\* the projection or the order of the clone never changes the query
\* expression of the original.
C28_CloneLeavesOriginalUnchanged ==
    rClone.cloned => (rClone.original = rClone.atClone)

\* C30: an aggregate that is given no alias is aliased <aggFn>Of_<path with
\* underscores for slashes> for a nested path and <aggFn>Of<FieldName> for a
\* field, on each of select, orderBy, groupBy, max, min and average
C30_AggregateAliasOnEveryRoute ==
    bAgg.route \in {"select", "orderBy", "groupBy", "max", "min", "average"} =>
        bAgg.alias = IF Len(bAgg.attr) > 1
                     THEN <<bAgg.aggr, "Of_">> \o ReplaceSlashes(bAgg.attr)
                     ELSE <<bAgg.aggr, "Of", bAgg.attr[1]>>

\* C31: the Queryable that DataModel.orderByDescending(attr) returns has an
\* order expression that sorts by attr in descending order
C31_ModelOrderByDescendingSortsDescending ==
    bLast.method = "DataModel.orderByDescending" =>
        /\ Len(bOrder) = 1
        /\ bOrder[1].direction = "desc"

\* operations that overlap on one Model
InitOverlap ==
    OvlInit /\ PipeIdle /\ ResIdle /\ ListIdle /\ FlagsIdle /\ NestIdle /\ SelIdle /\ BldIdle
    /\ TxIdle /\ MdlIdle /\ ObjIdle

SpecOverlap == InitOverlap /\ [][OvlNext]_vars

\* C32: when operations on a Model that is not migrated overlap and no
\* migration of theirs fails, the adapter's migrate is called at most once
\* for the Model and its version
C32_MigrateAtMostOnce ==
    (\A i \in 1..MaxOperations :
         oPc[i] \in TransactionOutcomes => TransactionError(oPc[i]) = "none")
        => oMigrates <= 1

\* objects saved and removed one after the other on one Model
InitObject ==
    ObjInit /\ PipeIdle /\ ResIdle /\ ListIdle /\ FlagsIdle /\ NestIdle /\ SelIdle /\ BldIdle
    /\ TxIdle /\ MdlIdle /\ OvlIdle

SpecObject == InitObject /\ [][ObjNext]_vars

\* C33: for an object that is saved, after.save is emitted once and the
\* callback of the object is called once, on every path
C33_AfterSaveAndCallbackOnce ==
    /\ jRun.callbacks <= 1
    /\ (jRun.op = "save" /\ jRun.pc = "done" /\ jRun.err \in {"none", "after"}) =>
           (jRun.emits = 1 /\ jRun.callbacks = 1)

\* C36: for a Model with a base Model, a save writes the row of the base
\* Model before the row of the Model and a removal deletes the row of the
\* Model before the row of the base Model; when the first of the two fails
\* the second is not done
C36_BaseRowOrder ==
    jRun.hasBase =>
        /\ jRun.op = "save" => jRun.rows \in {<<>>, <<"base">>, <<"base", "derived">>}
        /\ jRun.op = "remove" => jRun.rows \in {<<>>, <<"derived">>, <<"derived", "base">>}
        /\ (jRun.op = "save" /\ jRun.err = "base") => jRun.rows = <<>>
        /\ (jRun.op = "remove" /\ jRun.err = "execute") => jRun.rows = <<>>

C36_Witness ==
    /\ jRun.hasBase
    /\ jRun.op = "save"
    /\ jRun.rows = <<"base", "derived">>
    /\ jRun.pc = "done"

\* C39: whatever was saved or removed before, and however it ended, each
\* listener that is registered with once runs once for the next object that
\* is saved or removed
C39_OnceListenersRunOnce ==
    /\ (jRun.op # "none" /\ jRun.pc # "before" /\ jRun.err # "before") =>
           \A i \in 1..Len(OnceListeners(jRun.op).before) :
               Cardinality({n \in 1..Len(jRun.ran) :
                                jRun.ran[n] = OnceListeners(jRun.op).before[i]}) = 1
    /\ (jRun.op = "save" /\ jRun.pc = "done" /\ jRun.err = "none") =>
           Cardinality({n \in 1..Len(jRun.ran) :
                            jRun.ran[n] = "association.afterSave"}) = 1

\* C34: the query that list() runs on the clone for the total expands no
\* association, whatever the expand list of the Queryable, and leaves the
\* paging parameters of the Queryable as they were
C34_CountExpandsNothing ==
    res.status = "ok" =>
        /\ res.expanded = 0
        /\ query.skip = given.skip
        /\ query.expand = given.expand

\* C35: the field reference that the resolution of a nested path of two or
\* three segments returns, with the Model on the child side or on the parent
\* side of the association, names an alias that a join of the join list of
\* the query has
C35_FieldReferenceNamesAJoin ==
    ( /\ rLast.status = "ok"
      /\ InferMapping(rModel, rLast.path[1]).associationType = "association" )
    => \E i \in 1..Len(rExpand.joins) : rExpand.joins[i].as = rLast.select.from

\* C38: select() with no argument returns for every Model, also for a Model
\* for which no field is enumerated and for a Model for which the one field
\* enumerated is an expandable many field
C38_SelectTerminates ==
    ~sq.endless

\* C37: no hidden field is in the projection that a terminal operation gives
\* to the adapter, whether or not the Queryable is flattened or has levels 0
C37_NoHiddenFieldExecuted ==
    (sRan /\ ~sq.endless) =>
        sq.select.fields \cap NamesOf({f \in SelectFields(sModel) : f.hidden}) = {}

====
